---------------------------- MODULE Spec2Model ----------------------------
(***************************************************************************)
(* A model of kestrel's coordination primitives.                           *)
(*                                                                         *)
(*   kestrel-state : State<T>, WritableState<T>, ReadOnlyState<T>          *)
(*                   (an Option<T> behind a tokio RwLock plus a Notify)    *)
(*   kestrel       : Task<T> (a tokio JoinHandle plus a futures            *)
(*                   AbortHandle around Abortable work)                    *)
(*                                                                         *)
(* Every async fn is cut at the points where another thread of the         *)
(* multi-threaded runtime can observe or change shared state: the          *)
(* acquisition and the release of the RwLock, the creation and the first   *)
(* poll of the Notified future, the store and the notify_waiters call of   *)
(* set.                                                                    *)
(***************************************************************************)
EXTENDS Naturals, Integers, Sequences, FiniteSets, TLC

----------------------------------------------------------------------------
(* Bounds of the model.                                                    *)

\* number of concurrent callers holding a ReadOnlyState facet
NReaders == 2
\* number of set calls the writer makes
MaxSets == 2
\* number of calls the readers make on their facets, all together
MaxCalls == 3
\* number of polls the work of a task needs to produce its output
WorkLen == 2
\* number of try_fulfill calls made on the engine
MaxAttempts == 2
\* number of messages the producers send into the line channel
MaxLines == 3

ReaderNames == <<"r1", "r2", "r3", "r4">>
Readers == {ReaderNames[i] : i \in 1..NReaders}
Writers == {"w"}
Procs == Readers \cup Writers
Values == {"a", "b"}
Tasks == {"t1", "t2"}

None == "none"
Timeout == "timeout"

\* WaitCondition: wait_for(EVER) is Ok(wait_forever()), so "ever" is also the
\* run of a direct wait_forever call; "duration" is wait_for(Duration)
WaitModes == {"ever", "duration"}
ReadModes == {"get", "is_set"}

VARIABLES
    inner,      \* State.inner: the Option<T> behind the RwLock
    lock,       \* the RwLock: read guards, write guard, FIFO queue of waiters
    calls,      \* Notify: number of notify_waiters calls so far
    waiters,    \* Notify: Notified futures that are in the waiter list
    pc,         \* position of each caller in the function it is running
    mode,       \* the operation each caller is running
    arg,        \* the argument of the writer's set call
    snap,       \* Notified future: notify_waiters count seen at creation
    timer,      \* the Sleep of wait_for_duration: off, running, expired
    ret,        \* the return of a read-facet call, in the state it returns to
    ncalls,     \* read-facet calls made so far
    setArgs,    \* history: arguments of the set calls started so far
    nStarted,   \* history: set calls started
    nCompleted, \* history: set calls returned
    atCall,     \* history: slot and lock as a wait_for(Duration) call found them
    timedOut    \* history: readers whose latest finished call timed out

cellVars == <<inner, lock, calls, waiters, pc, mode, arg, snap, timer, ret,
              ncalls, setArgs, nStarted, nCompleted, atCall, timedOut>>

VARIABLES
    wstate,     \* the spawned work: idle (between polls), running (in a poll), done
    pos,        \* suspension points the work has passed
    aflag,      \* AbortHandle: the aborted flag of the Abortable
    cancelReq,  \* tokio task: cancellation requested through the JoinHandle
    output,     \* tokio task: the stored result of the join, once terminal
    handle,     \* the Task value: held, aborting, awaiting, joined, dropping, dropped
    result,     \* what awaiting the Task yielded
    dropInfo,   \* history: the work as a drop of its running Task left it
    lateAbort   \* history: abort was called on a Task whose work was terminal

taskVars == <<wstate, pos, aflag, cancelReq, output, handle, result,
              dropInfo, lateAbort>>

VARIABLES
    mac,        \* the macro the owner of the tasks is running: abort, await, end
    mphase,     \* where the macro is: idle, abort, await, done
    midx,       \* the listed task the macro is at
    mres        \* the macro's `result`

macroVars == <<mac, mphase, midx, mres>>

VARIABLES
    ffpc,       \* the engine in try_fulfill: idle, got, store, notify, release
    ffout,      \* what try_get yielded in this attempt
    ffret,      \* the return of try_fulfill, in the state it returns to
    ffn,        \* attempts made so far
    ffpre       \* history: the slot and the notifier count as the attempt began

fulfillVars == <<ffpc, ffout, ffret, ffn, ffpre>>

VARIABLES
    line_receiver,  \* JsonlFiller: the messages sent and not yet received
    line_map,       \* JsonlFiller: the entry of each name
    var_prefix,     \* Jsonl: the prefix the engine was created with
    nsent,          \* messages sent so far
    received,       \* the messages update has received, oldest first
    fill            \* what the latest try_fill returned

jsonlVars == <<line_receiver, line_map, var_prefix, nsent, received, fill>>

VARIABLES
    runpc,          \* Fulfill::run: "off", "loop", "called" or "done"
    runret          \* Fulfill::run: what it returned

runVars == <<runpc, runret>>

VARIABLES
    ppc,        \* pipe_output of each stream: "read", "write", "send", "done"
    ppos,       \* the number of lines of the stream it has dealt with
    pidx,       \* the sender it has come to in the fan-out loop
    written,    \* the lines written to the default writer of each stream
    chan,       \* the lines in each subscriber's channel
    got,        \* the lines each subscriber has received
    open        \* whether each subscriber still holds its receiver

pipeVars == <<ppc, ppos, pidx, written, chan, got, open>>

\* what the operations of each part leave alone
notCell == <<taskVars, macroVars, fulfillVars, jsonlVars, runVars, pipeVars>>
notTask == <<cellVars, macroVars, fulfillVars, jsonlVars, runVars, pipeVars>>

vars == <<cellVars, taskVars, macroVars, fulfillVars, jsonlVars, runVars, pipeVars>>

----------------------------------------------------------------------------
(* tokio::sync::RwLock: a fair lock on a FIFO semaphore.  A request is     *)
(* granted at once when nobody is queued and it is compatible with the     *)
(* guards held; otherwise it queues, and a release hands the lock to the   *)
(* head of the queue for as long as the head is compatible.                *)

NoLock == [readers |-> {}, writer |-> None, queue |-> <<>>]

Compatible(l, k) ==
    IF k = "r" THEN l.writer = None
    ELSE l.writer = None /\ l.readers = {}

Take(l, p, k) ==
    IF k = "r" THEN [l EXCEPT !.readers = @ \cup {p}]
    ELSE [l EXCEPT !.writer = p]

RECURSIVE GrantQueued(_)
GrantQueued(l) ==
    IF l.queue = <<>> \/ ~Compatible(l, Head(l.queue).k) THEN l
    ELSE GrantQueued(Take([l EXCEPT !.queue = Tail(@)],
                          Head(l.queue).p, Head(l.queue).k))

\* self.state.inner.read().await / .write().await, first poll
Acquire(l, p, k) ==
    IF l.queue = <<>> /\ Compatible(l, k) THEN Take(l, p, k)
    ELSE [l EXCEPT !.queue = Append(@, [p |-> p, k |-> k])]

\* drop of a guard
Release(l, p) ==
    GrantQueued([l EXCEPT !.readers = @ \ {p},
                          !.writer = IF @ = p THEN None ELSE @])

RemoveFrom(q, p) == SelectSeq(q, LAMBDA e : e.p # p)

\* drop of a pending acquire future
Withdraw(l, p) == GrantQueued([l EXCEPT !.queue = RemoveFrom(@, p)])

InQueue(p) == \E i \in 1..Len(lock.queue) : lock.queue[i].p = p
HoldsRead(p) == p \in lock.readers
HoldsWrite(p) == lock.writer = p

----------------------------------------------------------------------------
(* State::new                                                              *)

\* mutant: the cell is created holding a default value
StateNewFilled == "a"

StateNew == None

NoRet == [who |-> None, op |-> None, val |-> None]
NoCall == [filled |-> FALSE, granted |-> FALSE]

CellInit ==
    /\ inner = StateNew
    /\ lock = NoLock
    /\ calls = 0
    /\ waiters = {}
    /\ pc = [p \in Procs |-> "idle"]
    /\ mode = [p \in Procs |-> None]
    /\ arg = [w \in Writers |-> None]
    /\ snap = [r \in Readers |-> 0]
    /\ timer = [r \in Readers |-> "off"]
    /\ ret = NoRet
    /\ ncalls = 0
    /\ setArgs = {}
    /\ nStarted = 0
    /\ nCompleted = 0
    /\ atCall = [r \in Readers |-> NoCall]
    /\ timedOut = {}

(* task(f): the work is spawned as Abortable::new(f, reg) and runs without   *)
(* being awaited; nothing is aborted.                                      *)

NoDrop == [at |-> -1, running |-> FALSE]

\* what the runtime stores for the JoinHandle: Result<Result<T, Aborted>, JoinError>
NoOutput == [join |-> None, val |-> None]
Completed == [join |-> "ok", val |-> "value"]
AbortedOut == [join |-> "ok", val |-> "aborted"]
CancelledOut == [join |-> "cancelled", val |-> None]
PanicOut == [join |-> "panic", val |-> None]

TaskInit ==
    /\ wstate = [t \in Tasks |-> "idle"]
    /\ pos = [t \in Tasks |-> 0]
    /\ aflag = [t \in Tasks |-> FALSE]
    /\ cancelReq = [t \in Tasks |-> FALSE]
    /\ output = [t \in Tasks |-> NoOutput]
    /\ handle = [t \in Tasks |-> "held"]
    /\ result = [t \in Tasks |-> None]
    /\ dropInfo = [t \in Tasks |-> NoDrop]
    /\ lateAbort = [t \in Tasks |-> FALSE]

\* no macro has been invoked on the tasks
MacroInit ==
    /\ mac = None
    /\ mphase = "idle"
    /\ midx = 1
    /\ mres = None

NoAttempt == [kind |-> None, val |-> None]
NoPre == [inner |-> None, calls |-> 0]

\* the engine holds the write facet of the cell and has made no attempt
FulfillInit ==
    /\ ffpc = "idle"
    /\ ffout = NoAttempt
    /\ ffret = NoAttempt
    /\ ffn = 0
    /\ ffpre = NoPre

\* the names lines are about: the fields of the target and their prefixed forms
Fields == <<"key", "number">>
Prefixed == [key |-> "p_key", number |-> "p_number"]
Keys == {"key", "number", "p_key", "p_number"}

\* serde_json::Value, by its kind and the text it was read from
Absent == [json |-> None, text |-> None]

\* no try_fill call has returned
NoFill == [kind |-> "unset", val |-> None, prefix |-> None]

\* JsonlFiller::new: an open channel and an empty map; no engine built yet
JsonlInit ==
    /\ line_receiver = <<>>
    /\ line_map = [k \in Keys |-> Absent]
    /\ var_prefix = "unset"
    /\ nsent = 0
    /\ received = <<>>
    /\ fill = NoFill

\* run has not been called
RunInit == runpc = "off" /\ runret = NoAttempt

\* the streams of the command and the channels subscribed to them
Streams == {"stdout", "stderr"}
Subscribers == {"a", "b"}

\* the command has not been run; every subscriber holds its receiver
PipeInit ==
    /\ ppc = [s \in Streams |-> "off"]
    /\ ppos = [s \in Streams |-> 0]
    /\ pidx = [s \in Streams |-> 0]
    /\ written = [s \in Streams |-> <<>>]
    /\ chan = [c \in Subscribers |-> <<>>]
    /\ got = [c \in Subscribers |-> <<>>]
    /\ open = [c \in Subscribers |-> TRUE]

Init ==
    /\ CellInit /\ TaskInit /\ MacroInit /\ FulfillInit /\ JsonlInit /\ RunInit
    /\ PipeInit

----------------------------------------------------------------------------
(* WritableState::set                                                      *)

\* a set that notifies the waiters as it is called, before it has the lock
SetCallNotifies(w, v) ==
    /\ pc[w] = "idle"
    /\ nStarted < MaxSets
    /\ lock' = Acquire(lock, w, "w")
    /\ calls' = calls + 1
    /\ waiters' = {}
    /\ pc' = [pc EXCEPT ![w] = "store"]
    /\ mode' = [mode EXCEPT ![w] = "set"]
    /\ arg' = [arg EXCEPT ![w] = v]
    /\ setArgs' = setArgs \cup {v}
    /\ nStarted' = nStarted + 1
    /\ ret' = NoRet
    /\ UNCHANGED <<inner, snap, timer, ncalls, nCompleted, atCall, timedOut>>
    /\ UNCHANGED notCell

\* let mut lock = self.state.inner.write().await;
SetCall(w, v) ==
    /\ pc[w] = "idle"
    /\ nStarted < MaxSets
    /\ lock' = Acquire(lock, w, "w")
    /\ pc' = [pc EXCEPT ![w] = "store"]
    /\ mode' = [mode EXCEPT ![w] = "set"]
    /\ arg' = [arg EXCEPT ![w] = v]
    /\ setArgs' = setArgs \cup {v}
    /\ nStarted' = nStarted + 1
    /\ ret' = NoRet
    /\ UNCHANGED <<inner, calls, waiters, snap, timer, ncalls,
                   nCompleted, atCall, timedOut>>
    /\ UNCHANGED notCell

\* mutant: a set on a filled slot keeps the value already stored
SetStoreOnce(w) ==
    /\ pc[w] = "store"
    /\ HoldsWrite(w)
    /\ inner' = IF inner = None THEN arg[w] ELSE inner
    /\ pc' = [pc EXCEPT ![w] = "notify"]
    /\ ret' = NoRet
    /\ UNCHANGED <<lock, calls, waiters, mode, arg, snap, timer, ncalls,
                   setArgs, nStarted, nCompleted, atCall, timedOut>>
    /\ UNCHANGED notCell

\* *lock = Some(value);
SetStore(w) ==
    /\ pc[w] = "store"
    /\ HoldsWrite(w)
    /\ inner' = arg[w]
    /\ pc' = [pc EXCEPT ![w] = "notify"]
    /\ ret' = NoRet
    /\ UNCHANGED <<lock, calls, waiters, mode, arg, snap, timer, ncalls,
                   setArgs, nStarted, nCompleted, atCall, timedOut>>
    /\ UNCHANGED notCell

\* self.state.notify.notify_waiters();
SetNotify(w) ==
    /\ pc[w] = "notify"
    /\ calls' = calls + 1
    /\ waiters' = {}
    /\ pc' = [pc EXCEPT ![w] = "release"]
    /\ ret' = NoRet
    /\ UNCHANGED <<inner, lock, mode, arg, snap, timer, ncalls,
                   setArgs, nStarted, nCompleted, atCall, timedOut>>
    /\ UNCHANGED notCell

\* the write guard is dropped as set returns
SetRelease(w) ==
    /\ pc[w] = "release"
    /\ lock' = Release(lock, w)
    /\ pc' = [pc EXCEPT ![w] = "idle"]
    /\ mode' = [mode EXCEPT ![w] = None]
    /\ nCompleted' = nCompleted + 1
    /\ ret' = NoRet
    /\ UNCHANGED <<inner, calls, waiters, arg, snap, timer, ncalls,
                   setArgs, nStarted, atCall, timedOut>>
    /\ UNCHANGED notCell

----------------------------------------------------------------------------
(* WritableState::get, ReadOnlyState::get, ReadOnlyState::is_set           *)

\* let lock = self.state.inner.read().await;
GetCall(p, m) ==
    /\ pc[p] = "idle"
    /\ ncalls < MaxCalls
    /\ lock' = Acquire(lock, p, "r")
    /\ pc' = [pc EXCEPT ![p] = "get"]
    /\ mode' = [mode EXCEPT ![p] = m]
    /\ ncalls' = ncalls + 1
    /\ ret' = NoRet
    /\ UNCHANGED <<inner, calls, waiters, arg, snap, timer,
                   setArgs, nStarted, nCompleted, atCall, timedOut>>
    /\ UNCHANGED notCell

GetResult(m) ==
    IF m = "get" THEN inner
    ELSE IF inner # None THEN "true" ELSE "false"

\* mutant: get takes the value out of the slot instead of cloning it
GetReadTakes(p) ==
    /\ pc[p] = "get"
    /\ HoldsRead(p)
    /\ ret' = [who |-> p, op |-> mode[p], val |-> GetResult(mode[p])]
    /\ inner' = None
    /\ lock' = Release(lock, p)
    /\ pc' = [pc EXCEPT ![p] = "idle"]
    /\ mode' = [mode EXCEPT ![p] = None]
    /\ timedOut' = timedOut \ {p}
    /\ UNCHANGED <<calls, waiters, arg, snap, timer, ncalls,
                   setArgs, nStarted, nCompleted, atCall>>
    /\ UNCHANGED notCell

\* lock.clone() / .is_some(), and the read guard is dropped
GetRead(p) ==
    /\ pc[p] = "get"
    /\ HoldsRead(p)
    /\ ret' = [who |-> p, op |-> mode[p], val |-> GetResult(mode[p])]
    /\ lock' = Release(lock, p)
    /\ pc' = [pc EXCEPT ![p] = "idle"]
    /\ mode' = [mode EXCEPT ![p] = None]
    /\ timedOut' = timedOut \ {p}
    /\ UNCHANGED <<inner, calls, waiters, arg, snap, timer, ncalls,
                   setArgs, nStarted, nCompleted, atCall>>
    /\ UNCHANGED notCell

----------------------------------------------------------------------------
(* ReadOnlyState::wait_forever, wait_for_duration, wait_for                *)

\* The call and its first poll: the first check asks for the read lock; in
\* Duration mode select! has created the Sleep.
WaitCall(r, m) ==
    /\ pc[r] = "idle"
    /\ ncalls < MaxCalls
    /\ lock' = Acquire(lock, r, "r")
    /\ pc' = [pc EXCEPT ![r] = "c1"]
    /\ mode' = [mode EXCEPT ![r] = m]
    /\ timer' = [timer EXCEPT ![r] = IF m = "duration" THEN "running" ELSE "off"]
    /\ ncalls' = ncalls + 1
    /\ atCall' = [atCall EXCEPT ![r] =
                     IF m = "duration"
                     THEN [filled |-> inner # None,
                           granted |-> r \in lock'.readers]
                     ELSE NoCall]
    /\ ret' = NoRet
    /\ UNCHANGED <<inner, calls, waiters, arg, snap,
                   setArgs, nStarted, nCompleted, timedOut>>
    /\ UNCHANGED notCell

\* return value; (Ok(state) in wait_for): the guard of the check is dropped
WaitReturn(r) ==
    /\ ret' = [who |-> r, op |-> mode[r], val |-> inner]
    /\ lock' = Release(lock, r)
    /\ pc' = [pc EXCEPT ![r] = "idle"]
    /\ mode' = [mode EXCEPT ![r] = None]
    /\ timer' = [timer EXCEPT ![r] = "off"]
    /\ snap' = [snap EXCEPT ![r] = 0]
    /\ atCall' = [atCall EXCEPT ![r] = NoCall]
    /\ timedOut' = timedOut \ {r}

\* mutant: the first check takes the value out of the slot as it returns it
WFCheck1Takes(r) ==
    /\ pc[r] = "c1"
    /\ HoldsRead(r)
    /\ IF inner # None
       THEN WaitReturn(r) /\ inner' = None
       ELSE /\ lock' = Release(lock, r)
            /\ pc' = [pc EXCEPT ![r] = "sub"]
            /\ ret' = NoRet
            /\ UNCHANGED <<inner, mode, timer, snap, atCall, timedOut>>
    /\ UNCHANGED <<calls, waiters, arg, ncalls,
                   setArgs, nStarted, nCompleted>>
    /\ UNCHANGED notCell

\* if let Some(value) = self.state.inner.read().await.clone() { return value; }
WFCheck1(r) ==
    /\ pc[r] = "c1"
    /\ HoldsRead(r)
    /\ IF inner # None
       THEN WaitReturn(r)
       ELSE /\ lock' = Release(lock, r)
            /\ pc' = [pc EXCEPT ![r] = "sub"]
            /\ ret' = NoRet
            /\ UNCHANGED <<mode, timer, snap, atCall, timedOut>>
    /\ UNCHANGED <<inner, calls, waiters, arg, ncalls,
                   setArgs, nStarted, nCompleted>>
    /\ UNCHANGED notCell

\* mutant: no second check between the registration and the wait
WFSubscribeNoRecheck(r) ==
    /\ pc[r] = "sub"
    /\ snap' = [snap EXCEPT ![r] = calls]
    /\ pc' = [pc EXCEPT ![r] = "await"]
    /\ ret' = NoRet
    /\ UNCHANGED <<inner, lock, calls, waiters, mode, arg, timer, ncalls,
                   setArgs, nStarted, nCompleted, atCall, timedOut>>
    /\ UNCHANGED notCell

\* let notified = self.state.notify.notified();  then the second check asks
\* for the read lock
WFSubscribe(r) ==
    /\ pc[r] = "sub"
    /\ snap' = [snap EXCEPT ![r] = calls]
    /\ lock' = Acquire(lock, r, "r")
    /\ pc' = [pc EXCEPT ![r] = "c2"]
    /\ ret' = NoRet
    /\ UNCHANGED <<inner, calls, waiters, mode, arg, timer, ncalls,
                   setArgs, nStarted, nCompleted, atCall, timedOut>>
    /\ UNCHANGED notCell

\* mutant: the read guard of the second check is kept over notified.await
WFCheck2KeepsGuard(r) ==
    /\ pc[r] = "c2"
    /\ HoldsRead(r)
    /\ IF inner # None
       THEN WaitReturn(r)
       ELSE /\ pc' = [pc EXCEPT ![r] = "await"]
            /\ ret' = NoRet
            /\ UNCHANGED <<lock, mode, timer, snap, atCall, timedOut>>
    /\ UNCHANGED <<inner, calls, waiters, arg, ncalls,
                   setArgs, nStarted, nCompleted>>
    /\ UNCHANGED notCell

\* if let Some(value) = self.state.inner.read().await.clone() { return value; }
WFCheck2(r) ==
    /\ pc[r] = "c2"
    /\ HoldsRead(r)
    /\ IF inner # None
       THEN WaitReturn(r)
       ELSE /\ lock' = Release(lock, r)
            /\ pc' = [pc EXCEPT ![r] = "await"]
            /\ ret' = NoRet
            /\ UNCHANGED <<mode, timer, snap, atCall, timedOut>>
    /\ UNCHANGED <<inner, calls, waiters, arg, ncalls,
                   setArgs, nStarted, nCompleted>>
    /\ UNCHANGED notCell

\* notified.await, first poll: a Notified future completes at once when
\* notify_waiters has been called since it was created; otherwise it enters
\* the waiter list.  Completed, the loop starts over with the first check.
WFAwait(r) ==
    /\ pc[r] = "await"
    /\ IF calls # snap[r]
       THEN /\ lock' = Acquire(lock, r, "r")
            /\ pc' = [pc EXCEPT ![r] = "c1"]
            /\ UNCHANGED waiters
       ELSE /\ waiters' = waiters \cup {r}
            /\ pc' = [pc EXCEPT ![r] = "susp"]
            /\ UNCHANGED lock
    /\ ret' = NoRet
    /\ UNCHANGED <<inner, calls, mode, arg, snap, timer, ncalls,
                   setArgs, nStarted, nCompleted, atCall, timedOut>>
    /\ UNCHANGED notCell

\* notified.await, woken by notify_waiters: the loop starts over
WFWake(r) ==
    /\ pc[r] = "susp"
    /\ r \notin waiters
    /\ lock' = Acquire(lock, r, "r")
    /\ pc' = [pc EXCEPT ![r] = "c1"]
    /\ ret' = NoRet
    /\ UNCHANGED <<inner, calls, waiters, mode, arg, snap, timer, ncalls,
                   setArgs, nStarted, nCompleted, atCall, timedOut>>
    /\ UNCHANGED notCell

\* the deadline of sleep(duration) passes
TimerFire(r) ==
    /\ timer[r] = "running"
    /\ timer' = [timer EXCEPT ![r] = "expired"]
    /\ ret' = NoRet
    /\ UNCHANGED <<inner, lock, calls, waiters, pc, mode, arg, snap,
                   ncalls, setArgs, nStarted, nCompleted, atCall, timedOut>>
    /\ UNCHANGED notCell

\* wait_forever is pending: it waits for the read lock or for the notifier
Suspended(r) ==
    \/ pc[r] \in {"c1", "c2"} /\ InQueue(r)
    \/ pc[r] = "susp"

\* mutant: the timeout is reported before the timer has expired
WaitTimeoutEarly(r) ==
    /\ mode[r] = "duration"
    /\ Suspended(r)
    /\ ret' = [who |-> r, op |-> "duration", val |-> Timeout]
    /\ lock' = Withdraw(lock, r)
    /\ waiters' = waiters \ {r}
    /\ pc' = [pc EXCEPT ![r] = "idle"]
    /\ mode' = [mode EXCEPT ![r] = None]
    /\ timer' = [timer EXCEPT ![r] = "off"]
    /\ snap' = [snap EXCEPT ![r] = 0]
    /\ atCall' = [atCall EXCEPT ![r] = NoCall]
    /\ timedOut' = timedOut \cup {r}
    /\ UNCHANGED <<inner, calls, arg, ncalls,
                   setArgs, nStarted, nCompleted>>
    /\ UNCHANGED notCell

\* mutant: the abandoned wait stays queued for the lock and registered with
\* the notifier
WaitTimeoutLeaks(r) ==
    /\ mode[r] = "duration"
    /\ timer[r] = "expired"
    /\ Suspended(r)
    /\ ret' = [who |-> r, op |-> "duration", val |-> Timeout]
    /\ pc' = [pc EXCEPT ![r] = "idle"]
    /\ mode' = [mode EXCEPT ![r] = None]
    /\ timer' = [timer EXCEPT ![r] = "off"]
    /\ snap' = [snap EXCEPT ![r] = 0]
    /\ atCall' = [atCall EXCEPT ![r] = NoCall]
    /\ timedOut' = timedOut \cup {r}
    /\ UNCHANGED <<inner, lock, waiters, calls, arg, ncalls,
                   setArgs, nStarted, nCompleted>>
    /\ UNCHANGED notCell

\* _ = sleep(duration) => Err(WaitError::Condition("timeout")): select! drops
\* the wait_forever future with its pending acquire or Notified future
WaitTimeout(r) ==
    /\ mode[r] = "duration"
    /\ timer[r] = "expired"
    /\ Suspended(r)
    /\ ret' = [who |-> r, op |-> "duration", val |-> Timeout]
    /\ lock' = Withdraw(lock, r)
    /\ waiters' = waiters \ {r}
    /\ pc' = [pc EXCEPT ![r] = "idle"]
    /\ mode' = [mode EXCEPT ![r] = None]
    /\ timer' = [timer EXCEPT ![r] = "off"]
    /\ snap' = [snap EXCEPT ![r] = 0]
    /\ atCall' = [atCall EXCEPT ![r] = NoCall]
    /\ timedOut' = timedOut \cup {r}
    /\ UNCHANGED <<inner, calls, arg, ncalls,
                   setArgs, nStarted, nCompleted>>
    /\ UNCHANGED notCell

----------------------------------------------------------------------------

WriterStep(w) ==
    \/ \E v \in Values : SetCall(w, v)
    \/ SetStore(w)
    \/ SetNotify(w)
    \/ SetRelease(w)

ReaderStep(r) ==
    \/ \E m \in WaitModes : WaitCall(r, m)
    \/ WFCheck1(r)
    \/ WFSubscribe(r)
    \/ WFCheck2(r)
    \/ WFAwait(r)
    \/ WFWake(r)
    \/ TimerFire(r)
    \/ WaitTimeout(r)

GetStep(p) ==
    \/ \E m \in ReadModes : GetCall(p, m)
    \/ GetRead(p)

\* the State cell, used by a writer and concurrent readers
Next ==
    \/ \E w \in Writers : WriterStep(w)
    \/ \E r \in Readers : ReaderStep(r)
    \/ \E r \in Readers : GetStep(r)

Spec == Init /\ [][Next]_vars

----------------------------------------------------------------------------
(* kestrel::Task.  The work f is spawned as Abortable::new(f, abort_reg) on *)
(* the tokio runtime.  A poll of the task first finds out whether it was    *)
(* cancelled through its JoinHandle, then whether the Abortable was         *)
(* aborted, and only then runs f up to its next suspension point.  A poll   *)
(* that has started runs f to that point whatever is requested meanwhile.   *)

Terminal(t) == output[t] # NoOutput

\* mutant: a task cancelled through its JoinHandle is dropped without an
\* outcome being stored for the join
PollStartCancelSilent(t) ==
    /\ wstate[t] = "idle"
    /\ IF cancelReq[t]
       THEN /\ wstate' = [wstate EXCEPT ![t] = "done"]
            /\ UNCHANGED output
       ELSE IF aflag[t]
       THEN /\ wstate' = [wstate EXCEPT ![t] = "done"]
            /\ output' = [output EXCEPT ![t] = AbortedOut]
       ELSE /\ wstate' = [wstate EXCEPT ![t] = "running"]
            /\ UNCHANGED output
    /\ UNCHANGED <<pos, aflag, cancelReq, handle, result, dropInfo, lateAbort>>
    /\ UNCHANGED notTask

\* the runtime polls the task: it was woken by what the work waits for, or
\* by AbortHandle::abort, or scheduled by JoinHandle::abort
PollStart(t) ==
    /\ wstate[t] = "idle"
    /\ IF cancelReq[t]
       THEN \* cancelled before the poll: the future is dropped
            /\ wstate' = [wstate EXCEPT ![t] = "done"]
            /\ output' = [output EXCEPT ![t] = CancelledOut]
       ELSE IF aflag[t]
       THEN \* Abortable::poll: Poll::Ready(Err(Aborted))
            /\ wstate' = [wstate EXCEPT ![t] = "done"]
            /\ output' = [output EXCEPT ![t] = AbortedOut]
       ELSE /\ wstate' = [wstate EXCEPT ![t] = "running"]
            /\ UNCHANGED output
    /\ UNCHANGED <<pos, aflag, cancelReq, handle, result, dropInfo, lateAbort>>
    /\ UNCHANGED notTask

\* the poll of f ends: with its output after its last segment, otherwise
\* Pending, and then the Abortable and the runtime look at the flags again
PollEnd(t) ==
    /\ wstate[t] = "running"
    /\ pos' = [pos EXCEPT ![t] = @ + 1]
    /\ IF pos[t] + 1 = WorkLen
       THEN /\ wstate' = [wstate EXCEPT ![t] = "done"]
            /\ output' = [output EXCEPT ![t] = Completed]
       ELSE IF aflag[t]
       THEN /\ wstate' = [wstate EXCEPT ![t] = "done"]
            /\ output' = [output EXCEPT ![t] = AbortedOut]
       ELSE IF cancelReq[t]
       THEN /\ wstate' = [wstate EXCEPT ![t] = "done"]
            /\ output' = [output EXCEPT ![t] = CancelledOut]
       ELSE /\ wstate' = [wstate EXCEPT ![t] = "idle"]
            /\ UNCHANGED output
    /\ UNCHANGED <<aflag, cancelReq, handle, result, dropInfo, lateAbort>>
    /\ UNCHANGED notTask

\* f panics in a poll: the join fails with a JoinError that is no cancellation
PollPanic(t) ==
    /\ wstate[t] = "running"
    /\ wstate' = [wstate EXCEPT ![t] = "done"]
    /\ output' = [output EXCEPT ![t] = PanicOut]
    /\ UNCHANGED <<pos, aflag, cancelReq, handle, result, dropInfo, lateAbort>>
    /\ UNCHANGED notTask

\* Task::abort, first statement: self.abort_handle.abort();
AbortHandleAbort(t, next) ==
    /\ aflag' = [aflag EXCEPT ![t] = TRUE]
    /\ handle' = [handle EXCEPT ![t] = next]
    /\ lateAbort' = [lateAbort EXCEPT ![t] = @ \/ Terminal(t)]

\* Task::abort, second statement: self.handle.abort(); no effect on a task
\* that is terminal
JoinHandleAbort(t) ==
    /\ cancelReq' = [cancelReq EXCEPT ![t] = @ \/ ~Terminal(t)]
    /\ UNCHANGED output

\* task.abort() by the owner of the Task
TaskAbort(t) ==
    /\ handle[t] = "held"
    /\ AbortHandleAbort(t, "aborting")
    /\ UNCHANGED <<wstate, pos, cancelReq, output, result, dropInfo>>
    /\ UNCHANGED notTask

TaskAbortEnd(t) ==
    /\ handle[t] = "aborting"
    /\ JoinHandleAbort(t)
    /\ handle' = [handle EXCEPT ![t] = "held"]
    /\ UNCHANGED <<wstate, pos, aflag, result, dropInfo, lateAbort>>
    /\ UNCHANGED notTask

\* mutant: dropping the Task detaches the work, as dropping a JoinHandle does
TaskDropDetaches(t) ==
    /\ handle[t] \in {"held", "awaiting"}
    /\ handle' = [handle EXCEPT ![t] = "dropped"]
    /\ dropInfo' = [dropInfo EXCEPT ![t] =
                      IF Terminal(t) THEN NoDrop
                      ELSE [at |-> pos[t], running |-> wstate[t] = "running"]]
    /\ UNCHANGED <<wstate, pos, aflag, cancelReq, output, result, lateAbort>>
    /\ UNCHANGED notTask

\* impl Drop for Task: self.abort(), the Task held or being awaited
TaskDrop(t) ==
    /\ handle[t] \in {"held", "awaiting"}
    /\ AbortHandleAbort(t, "dropping")
    /\ UNCHANGED <<wstate, pos, cancelReq, output, result, dropInfo>>
    /\ UNCHANGED notTask

TaskDropEnd(t) ==
    /\ handle[t] = "dropping"
    /\ JoinHandleAbort(t)
    /\ handle' = [handle EXCEPT ![t] = "dropped"]
    /\ dropInfo' = [dropInfo EXCEPT ![t] =
                      IF Terminal(t) THEN NoDrop
                      ELSE [at |-> pos[t], running |-> wstate[t] = "running"]]
    /\ UNCHANGED <<wstate, pos, aflag, result, lateAbort>>
    /\ UNCHANGED notTask

\* task.await starts: the Task is moved into the await
TaskAwait(t) ==
    /\ handle[t] = "held"
    /\ handle' = [handle EXCEPT ![t] = "awaiting"]
    /\ UNCHANGED <<wstate, pos, aflag, cancelReq, output, result, dropInfo,
                   lateAbort>>
    /\ UNCHANGED notTask

\* impl Future for Task: the JoinHandle is ready once the task is terminal;
\* Ok(Ok(v)) gives Ok(v), Ok(Err(Aborted)) gives TaskError::Aborted, a
\* JoinError gives TaskError::Join.  The Task is dropped as the await ends.
\* mutant: the await reports an abort whenever abort was called on the Task
JoinResultChecksFlag(t) ==
    IF aflag[t] THEN "Aborted"
    ELSE IF output[t].join = "ok"
    THEN IF output[t].val = "aborted" THEN "Aborted" ELSE "Ok"
    ELSE IF output[t].join = "cancelled" THEN "JoinCancelled" ELSE "JoinPanic"

JoinResult(t) ==
    IF output[t].join = "ok"
    THEN IF output[t].val = "aborted" THEN "Aborted" ELSE "Ok"
    ELSE IF output[t].join = "cancelled" THEN "JoinCancelled" ELSE "JoinPanic"

TaskJoin(t) ==
    /\ handle[t] = "awaiting"
    /\ Terminal(t)
    /\ result' = [result EXCEPT ![t] = JoinResult(t)]
    /\ handle' = [handle EXCEPT ![t] = "joined"]
    /\ aflag' = [aflag EXCEPT ![t] = TRUE]
    /\ UNCHANGED <<wstate, pos, cancelReq, output, dropInfo, lateAbort>>
    /\ UNCHANGED notTask

WorkStep(t) ==
    \/ PollStart(t)
    \/ PollEnd(t)
    \/ PollPanic(t)

OwnerStep(t) ==
    \/ TaskAbort(t)
    \/ TaskAbortEnd(t)
    \/ TaskDrop(t)
    \/ TaskDropEnd(t)
    \/ TaskAwait(t)
    \/ TaskJoin(t)

\* spawned tasks and the owners of their handles
TaskNext ==
    \/ \E t \in Tasks : WorkStep(t)
    \/ \E t \in Tasks : OwnerStep(t)

TaskSpec == Init /\ [][TaskNext]_vars

\* an is_aborted that reports whether the work ended by cancellation
IsAbortedByOutcome(t) ==
    output[t].val = "aborted" \/ output[t].join = "cancelled"

\* Task::is_aborted: self.abort_handle.is_aborted()
IsAborted(t) == aflag[t]

----------------------------------------------------------------------------
(* Task::maybe, Task::await_allow_abort and the macros abort!,             *)
(* await_allow_abort! and end! over the listed tasks.  A macro is straight *)
(* code of the owner of the tasks: it takes the tasks in the listed order, *)
(* one statement at a time, while the work of every task runs on.          *)

TaskList == <<"t1", "t2">>
Macros == {"abort", "await", "end"}

\* Task::maybe on what self.await yielded
Maybe(r) ==
    IF r = "Ok" THEN "Value"
    ELSE IF r = "Aborted" THEN "MaybeAborted"
    ELSE IF r = "JoinCancelled" THEN "ErrJoinCancelled"
    ELSE "ErrJoinPanic"

\* mutant: without the arm for a cancelled JoinError
AwaitAllowAbortNoCancelArm(r) ==
    IF Maybe(r) \in {"Value", "MaybeAborted"} THEN "Ok" ELSE "Err"

\* mutant: every join error is taken for a cancellation
AwaitAllowAbortSwallowsJoin(r) ==
    IF Maybe(r) \in {"Value", "MaybeAborted"} THEN "Ok"
    ELSE IF Maybe(r) \in {"ErrJoinCancelled", "ErrJoinPanic"} THEN "Ok"
    ELSE "Err"

\* Task::await_allow_abort on what self.maybe().await yielded
AwaitAllowAbort(r) ==
    IF Maybe(r) \in {"Value", "MaybeAborted"} THEN "Ok"
    ELSE IF Maybe(r) = "ErrJoinCancelled" THEN "Ok"
    ELSE "Err"

Cur == TaskList[midx]

\* the macro is invoked on tasks its caller holds; await_allow_abort! and
\* end! begin with  let mut result = Ok(());
MacroStart(m) ==
    /\ mac = None
    /\ \A t \in Tasks : handle[t] = "held"
    /\ mac' = m
    /\ mphase' = IF m = "await" THEN "await" ELSE "abort"
    /\ midx' = 1
    /\ mres' = IF m = "abort" THEN None ELSE "Ok"
    /\ UNCHANGED <<cellVars, taskVars, fulfillVars, jsonlVars, runVars, pipeVars>>

\* mutant: end! aborts and awaits each task in turn, in a single repetition
AdvancePerTask ==
    IF mac = "end"
    THEN /\ UNCHANGED mac
         /\ IF mphase = "abort"
            THEN mphase' = "await" /\ UNCHANGED midx
            ELSE IF midx < Len(TaskList)
            THEN mphase' = "abort" /\ midx' = midx + 1
            ELSE mphase' = "done" /\ UNCHANGED midx
    ELSE IF midx < Len(TaskList)
    THEN midx' = midx + 1 /\ UNCHANGED <<mac, mphase>>
    ELSE /\ UNCHANGED mac
         /\ mphase' = "done" /\ UNCHANGED midx

\* after the statement on the last listed task: abort! ends, end! goes on to
\* its awaits, and the awaits end the macro with `result`
Advance ==
    IF midx < Len(TaskList)
    THEN midx' = midx + 1 /\ UNCHANGED <<mac, mphase>>
    ELSE /\ UNCHANGED mac
         /\ IF mphase = "abort" /\ mac = "end"
            THEN mphase' = "await" /\ midx' = 1
            ELSE mphase' = "done" /\ UNCHANGED midx

\* mutant: abort goes through the JoinHandle alone and sets no flag
MacroAbortHandleSkipsFlag ==
    /\ mphase = "abort"
    /\ handle[Cur] = "held"
    /\ handle' = [handle EXCEPT ![Cur] = "aborting"]
    /\ UNCHANGED <<wstate, pos, aflag, cancelReq, output, result, dropInfo,
                   lateAbort>>
    /\ UNCHANGED <<cellVars, macroVars, fulfillVars, jsonlVars, runVars, pipeVars>>

\* $task.abort(); in abort! and end!: self.abort_handle.abort();
MacroAbortHandle ==
    /\ mphase = "abort"
    /\ handle[Cur] = "held"
    /\ AbortHandleAbort(Cur, "aborting")
    /\ UNCHANGED <<wstate, pos, cancelReq, output, result, dropInfo>>
    /\ UNCHANGED <<cellVars, macroVars, fulfillVars, jsonlVars, runVars, pipeVars>>

\* $task.abort(); in abort! and end!: self.handle.abort();
MacroAbortJoin ==
    /\ mphase = "abort"
    /\ handle[Cur] = "aborting"
    /\ JoinHandleAbort(Cur)
    /\ handle' = [handle EXCEPT ![Cur] = "held"]
    /\ Advance
    /\ UNCHANGED <<wstate, pos, aflag, result, dropInfo, lateAbort, mres>>
    /\ UNCHANGED <<cellVars, fulfillVars, jsonlVars, runVars, pipeVars>>

\* mutant: the await begins whatever `result` holds
MacroAwaitStartUnchecked ==
    /\ mphase = "await"
    /\ handle[Cur] = "held"
    /\ handle' = [handle EXCEPT ![Cur] = "awaiting"]
    /\ UNCHANGED <<wstate, pos, aflag, cancelReq, output, result, dropInfo,
                   lateAbort>>
    /\ UNCHANGED <<cellVars, macroVars, fulfillVars, jsonlVars, runVars, pipeVars>>

\* if result.is_ok() { result = $task.await_allow_abort().await; }: the await
\* begins
MacroAwaitStart ==
    /\ mphase = "await"
    /\ handle[Cur] = "held"
    /\ mres = "Ok"
    /\ handle' = [handle EXCEPT ![Cur] = "awaiting"]
    /\ UNCHANGED <<wstate, pos, aflag, cancelReq, output, result, dropInfo,
                   lateAbort>>
    /\ UNCHANGED <<cellVars, macroVars, fulfillVars, jsonlVars, runVars, pipeVars>>

\* the await ends once the task is terminal, the Task is dropped, and `result`
\* takes what await_allow_abort made of the outcome
MacroAwaitEnd ==
    /\ mphase = "await"
    /\ handle[Cur] = "awaiting"
    /\ Terminal(Cur)
    /\ result' = [result EXCEPT ![Cur] = JoinResult(Cur)]
    /\ handle' = [handle EXCEPT ![Cur] = "joined"]
    /\ aflag' = [aflag EXCEPT ![Cur] = TRUE]
    /\ mres' = AwaitAllowAbort(JoinResult(Cur))
    /\ Advance
    /\ UNCHANGED <<wstate, pos, cancelReq, output, dropInfo, lateAbort>>
    /\ UNCHANGED <<cellVars, fulfillVars, jsonlVars, runVars, pipeVars>>

\* if result.is_ok() is false: the task is passed over
MacroSkip ==
    /\ mphase = "await"
    /\ handle[Cur] = "held"
    /\ mres = "Err"
    /\ Advance
    /\ UNCHANGED mres
    /\ UNCHANGED <<cellVars, taskVars, fulfillVars, jsonlVars, runVars, pipeVars>>

MacroStep ==
    \/ MacroAbortHandle
    \/ MacroAbortJoin
    \/ MacroAwaitStart
    \/ MacroAwaitEnd
    \/ MacroSkip

\* before the macro its caller may have aborted any of the tasks
BeforeMacro(t) ==
    /\ mac = None
    /\ TaskAbort(t) \/ TaskAbortEnd(t)

MacroNext ==
    \/ \E t \in Tasks : WorkStep(t)
    \/ \E t \in Tasks : BeforeMacro(t)
    \/ \E m \in Macros : MacroStart(m)
    \/ MacroStep

MacroSpec == Init /\ [][MacroNext]_vars

----------------------------------------------------------------------------
(* Fulfill::try_fulfill.  The engine owns a write facet of the cell        *)
(* (dependency()) and is its only writer; readers use the cell meanwhile.  *)
(* try_get is the engine's own: here it yields any of its outcomes.        *)

Engine == "f"

\* Result<Option<T>, FulfillError> of try_get
Outcomes ==
    {[kind |-> "some", val |-> v] : v \in Values}
        \cup {[kind |-> "none", val |-> None]}
        \cup {[kind |-> "err", val |-> e] : e \in {"Fulfill", "Internal"}}

\* mutant: Some(value) is returned without being stored in the cell
FFTryGetSkipsSet(o) ==
    /\ ffpc = "idle"
    /\ ffn < MaxAttempts
    /\ ffn' = ffn + 1
    /\ ffout' = o
    /\ ffpre' = [inner |-> inner, calls |-> calls]
    /\ ffpc' = "idle"
    /\ ffret' = IF o.kind = "some" THEN [kind |-> "Ok", val |-> o.val]
                ELSE [kind |-> "Err",
                      val |-> IF o.kind = "none" THEN "Fulfill" ELSE o.val]
    /\ UNCHANGED <<cellVars, taskVars, macroVars, jsonlVars, runVars, pipeVars>>

\* mutant: the waiters are notified after every attempt
FFTryGetNotifies(o) ==
    /\ ffpc = "idle"
    /\ ffn < MaxAttempts
    /\ ffn' = ffn + 1
    /\ ffout' = o
    /\ ffpre' = [inner |-> inner, calls |-> calls]
    /\ IF o.kind = "some"
       THEN /\ ffpc' = "set" /\ ffret' = NoAttempt
            /\ UNCHANGED <<calls, waiters>>
       ELSE /\ ffpc' = "idle"
            /\ ffret' = [kind |-> "Err",
                         val |-> IF o.kind = "none" THEN "Fulfill" ELSE o.val]
            /\ calls' = calls + 1
            /\ waiters' = {}
    /\ UNCHANGED <<inner, lock, pc, mode, arg, snap, timer, ret, ncalls,
                   setArgs, nStarted, nCompleted, atCall, timedOut>>
    /\ UNCHANGED <<taskVars, macroVars, jsonlVars, runVars, pipeVars>>

\* match self.try_get().await? { ... }: an Err of try_get is returned by `?`,
\* None gives Err(FulfillError::Fulfill), and Some(value) goes on to
\* self.dependency()?.set(value.clone())
FFAttempt(o) ==
    /\ ffpc = "idle"
    /\ ffn' = ffn + 1
    /\ ffout' = o
    /\ ffpre' = [inner |-> inner, calls |-> calls]
    /\ IF o.kind = "some"
       THEN ffpc' = "set" /\ ffret' = NoAttempt
       ELSE /\ ffpc' = "idle"
            /\ ffret' = [kind |-> "Err",
                         val |-> IF o.kind = "none" THEN "Fulfill" ELSE o.val]
    /\ UNCHANGED <<cellVars, taskVars, macroVars, pipeVars>>

\* try_fulfill on an engine whose try_get leaves the key/value filler alone
FFTryGet(o) ==
    /\ ffn < MaxAttempts
    /\ FFAttempt(o)
    /\ UNCHANGED <<jsonlVars, runVars, pipeVars>>

\* set: let mut lock = self.state.inner.write().await;
FFSetCall ==
    /\ ffpc = "set"
    /\ lock' = Acquire(lock, Engine, "w")
    /\ ffpc' = "store"
    /\ setArgs' = setArgs \cup {ffout.val}
    /\ nStarted' = nStarted + 1
    /\ ret' = NoRet
    /\ UNCHANGED <<inner, calls, waiters, pc, mode, arg, snap, timer, ncalls,
                   nCompleted, atCall, timedOut>>
    /\ UNCHANGED <<ffout, ffret, ffn, ffpre, taskVars, macroVars, jsonlVars, runVars, pipeVars>>

\* set: *lock = Some(value);
FFSetStore ==
    /\ ffpc = "store"
    /\ HoldsWrite(Engine)
    /\ inner' = ffout.val
    /\ ffpc' = "notify"
    /\ ret' = NoRet
    /\ UNCHANGED <<lock, calls, waiters, pc, mode, arg, snap, timer, ncalls,
                   setArgs, nStarted, nCompleted, atCall, timedOut>>
    /\ UNCHANGED <<ffout, ffret, ffn, ffpre, taskVars, macroVars, jsonlVars, runVars, pipeVars>>

\* set: self.state.notify.notify_waiters();
FFSetNotify ==
    /\ ffpc = "notify"
    /\ calls' = calls + 1
    /\ waiters' = {}
    /\ ffpc' = "release"
    /\ ret' = NoRet
    /\ UNCHANGED <<inner, lock, pc, mode, arg, snap, timer, ncalls,
                   setArgs, nStarted, nCompleted, atCall, timedOut>>
    /\ UNCHANGED <<ffout, ffret, ffn, ffpre, taskVars, macroVars, jsonlVars, runVars, pipeVars>>

\* set returns as its guard is dropped, and try_fulfill returns Ok(value)
FFSetRelease ==
    /\ ffpc = "release"
    /\ lock' = Release(lock, Engine)
    /\ nCompleted' = nCompleted + 1
    /\ ffpc' = "idle"
    /\ ffret' = [kind |-> "Ok", val |-> ffout.val]
    /\ ret' = NoRet
    /\ UNCHANGED <<inner, calls, waiters, pc, mode, arg, snap, timer, ncalls,
                   setArgs, nStarted, atCall, timedOut>>
    /\ UNCHANGED <<ffout, ffn, ffpre, taskVars, macroVars, jsonlVars, runVars, pipeVars>>

EngineStep ==
    \/ \E o \in Outcomes : FFTryGet(o)
    \/ FFSetCall
    \/ FFSetStore
    \/ FFSetNotify
    \/ FFSetRelease

\* an engine and the readers of its cell
FulfillNext ==
    \/ EngineStep
    \/ \E r \in Readers : ReaderStep(r)
    \/ \E r \in Readers : GetStep(r)

FulfillSpec == Init /\ [][FulfillNext]_vars

-----------------------------------------------------------------------------
(* Fulfill::run: call try_fulfill until it returns Ok or an error other     *)
(* than FulfillError::Fulfill.                                              *)

\* run is called on the engine
RunStart ==
    /\ runpc = "off"
    /\ ffpc = "idle"
    /\ ffn = 0
    /\ runpc' = "loop"
    /\ UNCHANGED <<runret, cellVars, taskVars, macroVars, fulfillVars, jsonlVars, pipeVars>>

\* the loop body calls try_fulfill; try_get yields o
RunCall(o) ==
    /\ runpc = "loop"
    /\ ffn < MaxAttempts
    /\ FFAttempt(o)
    /\ runpc' = "called"
    /\ UNCHANGED <<runret, jsonlVars>>

\* a loop that gives up at the first attempt that did not succeed
RunMatchCapped ==
    /\ runpc = "called"
    /\ ffpc = "idle"
    /\ runpc' = "done"
    /\ runret' = ffret
    /\ UNCHANGED <<cellVars, taskVars, macroVars, fulfillVars, jsonlVars, pipeVars>>

\* a loop that passes "unable to fulfill request" on to its caller
RunMatchSurfacesIncomplete ==
    /\ runpc = "called"
    /\ ffpc = "idle"
    /\ IF ffret.kind = "Err" /\ ffret.val = "Fulfill" /\ ffout.kind # "none"
       THEN runpc' = "loop" /\ runret' = runret
       ELSE runpc' = "done" /\ runret' = ffret
    /\ UNCHANGED <<cellVars, taskVars, macroVars, fulfillVars, jsonlVars, pipeVars>>

\* a loop that goes on after a successful attempt
RunMatchKeepsGoing ==
    /\ runpc = "called"
    /\ ffpc = "idle"
    /\ IF ffret.kind = "Err" /\ ffret.val # "Fulfill"
       THEN runpc' = "done" /\ runret' = ffret
       ELSE runpc' = "loop" /\ runret' = runret
    /\ UNCHANGED <<cellVars, taskVars, macroVars, fulfillVars, jsonlVars, pipeVars>>

\* the match on what try_fulfill returned: Ok(value) => return Ok(value),
\* Err(FulfillError::Fulfill(_)) => continue, Err(e) => return Err(e)
RunMatch ==
    /\ runpc = "called"
    /\ ffpc = "idle"
    /\ IF ffret.kind = "Ok"
       THEN runpc' = "done" /\ runret' = ffret
       ELSE IF ffret.val = "Fulfill"
            THEN runpc' = "loop" /\ runret' = runret
            ELSE runpc' = "done" /\ runret' = ffret
    /\ UNCHANGED <<cellVars, taskVars, macroVars, fulfillVars, jsonlVars, pipeVars>>

\* the set call made inside try_fulfill
EngineSetStep ==
    \/ FFSetCall
    \/ FFSetStore
    \/ FFSetNotify
    \/ FFSetRelease

RunNext ==
    \/ RunStart
    \/ \E o \in Outcomes : RunCall(o)
    \/ EngineSetStep
    \/ RunMatch
    \/ \E r \in Readers : ReaderStep(r)
    \/ \E r \in Readers : GetStep(r)

RunSpec == Init /\ [][RunNext]_vars



-----------------------------------------------------------------------------
(* jsonlvar: lines of the form "JSONL <name> = <value>", the map they are   *)
(* accumulated in, and the construction of a target from the map.  A line   *)
(* is the sequence of its tokens.                                           *)

\* the value texts that occur: two that are neither JSON nor a number, a JSON
\* number, and a number that is not JSON
Texts == {"v", "w", "42", "+42"}

\* texts with the look of JSON: a quoted string, an object, and an opening
\* brace that is followed by no JSON
MoreTexts == {"\"v\"", "{}", "{bad"}

\* serde_json::from_str accepts the text
IsJson(text) == text \in {"42", "\"v\"", "{}"}

\* the value serde_json::from_str reads: a quoted string loses its quotes
JsonValue(text) ==
    IF text = "42" THEN [json |-> "number", text |-> "42"]
    ELSE IF text = "\"v\"" THEN [json |-> "string", text |-> "v"]
    ELSE [json |-> "object", text |-> text]

\* str::parse::<f64> accepts the text
IsF64(text) == text \in {"42", "+42"}

\* an interpretation that tries the number before JSON
InterpretNumberFirst(text) ==
    IF IsF64(text) THEN [json |-> "float", text |-> text]
    ELSE IF IsJson(text) THEN JsonValue(text)
    ELSE [json |-> "string", text |-> text]

\* the value of a line: JSON first, then a floating-point number, then the
\* text as a string
Interpret(text) ==
    IF IsJson(text) THEN JsonValue(text)
    ELSE IF IsF64(text) THEN [json |-> "float", text |-> text]
    ELSE [json |-> "string", text |-> text]

\* the regex JSONL\s+(\w+)\s*=\s*(.+)$ matches at token i of the line
MatchAt(line, i) ==
    /\ i + 3 <= Len(line)
    /\ line[i] = "JSONL"
    /\ line[i + 1] \in Keys
    /\ line[i + 2] = "="

\* re.captures finds a match somewhere in the line
Matches(line) == \E i \in 1..Len(line) : MatchAt(line, i)

\* the leftmost match
MatchPos(line) ==
    CHOOSE i \in 1..Len(line) :
        MatchAt(line, i) /\ \A j \in 1..(i - 1) : ~MatchAt(line, j)

\* capture 1 and capture 2 (the rest of the line)
VarName(line) == line[MatchPos(line) + 1]
ValueStr(line) == line[Len(line)]

\* the lines that occur
Lines ==
    {<<"JSONL", k, "=", t>> : k \in Keys, t \in Texts}
    \cup {<<"JSONL", "key", "=", t>> : t \in MoreTexts}
    \cup {<<"log">>, <<"key", "=", "v">>, <<"JSONL", "key">>,
          <<"log", "JSONL", "key", "=", "w">>}

\* the messages sent into the channel: one line, or several lines in one
Messages ==
    {<<l>> : l \in Lines}
    \cup {<< <<"JSONL", "key", "=", "v">>, <<"JSONL", "key", "=", "w">> >>,
          << <<"JSONL", "number", "=", "42">>, <<"log">> >>}

NoEntries == [k \in Keys |-> Absent]

\* inserting a matching line first-come-first-kept
ParseLineKeepsFirst(map, line) ==
    IF Matches(line) /\ map[VarName(line)] = Absent
    THEN [map EXCEPT ![VarName(line)] = Interpret(ValueStr(line))]
    ELSE map

\* one turn of the loop over input.lines(): a matching line is inserted
ParseLine(map, line) ==
    IF Matches(line)
    THEN [map EXCEPT ![VarName(line)] = Interpret(ValueStr(line))]
    ELSE map

RECURSIVE ParseFrom(_, _)
ParseFrom(map, lines) ==
    IF lines = <<>> THEN map
    ELSE ParseFrom(ParseLine(map, Head(lines)), Tail(lines))

\* JsonlParser::parse
Parse(input) == ParseFrom(NoEntries, input)

\* the loop of update: every parsed entry is inserted into the line map
Insert(map, parsed_vars) ==
    [k \in Keys |-> IF parsed_vars[k] # Absent THEN parsed_vars[k] ELSE map[k]]

\* the target: struct { key: String, number: i32 }
FieldType == [key |-> "String", number |-> "i32"]

\* serde_json::from_value into a field of type ty: a string into a String,
\* an integer into an i32; a float converts into neither
Deserializes(value, ty) ==
    \/ ty = "String" /\ value.json = "string"
    \/ ty = "i32" /\ value.json = "number"

\* prefixed_key: "<prefix>_<field>", or the field name without a prefix
PrefixedKey(p, F) == IF p = None THEN F ELSE Prefixed[F]

\* a lookup that prefers the bare entry
LookupBareFirst(map, p, F) ==
    IF map[F] # Absent THEN map[F] ELSE map[PrefixedKey(p, F)]

\* parsed_data.get(&prefixed_key).or_else(|| parsed_data.get(F))
Lookup(map, p, F) ==
    IF map[PrefixedKey(p, F)] # Absent THEN map[PrefixedKey(p, F)] ELSE map[F]

\* the constructed target, named by the texts of its fields
Built(acc) ==
    IF acc.number # "42" THEN None
    ELSE IF acc.key = "v" THEN "v42"
    ELSE IF acc.key = "w" THEN "w42" ELSE "{bad42"

\* the field extracts, in declaration order; the first `?` that fails returns
RECURSIVE ExtractFrom(_, _, _, _)
ExtractFrom(map, p, i, acc) ==
    IF i > Len(Fields) THEN [kind |-> "Ok", val |-> Built(acc)]
    ELSE LET F == Fields[i]
             value == Lookup(map, p, F)
         IN  IF value = Absent
             THEN [kind |-> "MissingField", val |-> PrefixedKey(p, F)]
             ELSE IF ~Deserializes(value, FieldType[F])
                  THEN [kind |-> "Json", val |-> F]
                  ELSE ExtractFrom(map, p, i + 1, [acc EXCEPT ![F] = value.text])

\* a construction that looks for absent entries in all fields first
TryFromJsonlMapMissingFirst(map, p) ==
    IF \E i \in 1..Len(Fields) : Lookup(map, p, Fields[i]) = Absent
    THEN [kind |-> "MissingField", val |-> None]
    ELSE ExtractFrom(map, p, 1, [key |-> None, number |-> None])

\* T::try_from_jsonl_map
TryFromJsonlMap(map, p) ==
    ExtractFrom(map, p, 1, [key |-> None, number |-> None])

\* the match of try_fill: Ok => Some, MissingField => None, else FillError
TryFillResult(map, p) ==
    LET r == TryFromJsonlMap(map, p)
    IN  IF r.kind = "Ok" THEN [kind |-> "some", val |-> r.val, prefix |-> p]
        ELSE IF r.kind = "MissingField"
             THEN [kind |-> "none", val |-> None, prefix |-> p]
             ELSE [kind |-> "err", val |-> "FillError", prefix |-> p]

\* the prefixes a caller may pass
PrefixArgs == {None, "p"}

\* a producer sends a message through a clone of the sender
JsonlSend(msg) ==
    /\ nsent < MaxLines
    /\ nsent' = nsent + 1
    /\ line_receiver' = Append(line_receiver, msg)
    /\ UNCHANGED <<line_map, var_prefix, received, fill>>
    /\ UNCHANGED <<cellVars, taskVars, macroVars, fulfillVars, runVars, pipeVars>>

\* an update that does not wait: with nothing in the channel it goes on
UpdatePolls ==
    IF line_receiver = <<>>
    THEN UNCHANGED <<line_receiver, received, line_map>>
    ELSE /\ line_receiver' = Tail(line_receiver)
         /\ received' = Append(received, Head(line_receiver))
         /\ line_map' = Insert(line_map, Parse(Head(line_receiver)))

\* pipe_output has ended on both streams and the command, with the senders
\* it was given, is gone
ProducersGone == \A s \in {"stdout", "stderr"} : ppc[s] = "done"

\* an update on a channel that closes with its last outside sender: recv
\* answers None and update returns without a message
UpdateSeesClosed ==
    IF line_receiver = <<>> /\ ProducersGone
    THEN UNCHANGED <<line_receiver, received, line_map>>
    ELSE /\ line_receiver # <<>>
         /\ line_receiver' = Tail(line_receiver)
         /\ received' = Append(received, Head(line_receiver))
         /\ line_map' = Insert(line_map, Parse(Head(line_receiver)))

\* an update that takes the message sent last
UpdateTakesLast ==
    /\ line_receiver # <<>>
    /\ line_receiver' = SubSeq(line_receiver, 1, Len(line_receiver) - 1)
    /\ received' = Append(received, line_receiver[Len(line_receiver)])
    /\ line_map' = Insert(line_map, Parse(line_receiver[Len(line_receiver)]))

\* JsonlFiller::update: receive one message and insert what it parses to
Update ==
    /\ line_receiver # <<>>
    /\ line_receiver' = Tail(line_receiver)
    /\ received' = Append(received, Head(line_receiver))
    /\ line_map' = Insert(line_map, Parse(Head(line_receiver)))

\* a try_fill that reports a message without a matching line as an error
TryFillRejectsNoise(p) ==
    /\ Update
    /\ fill' = IF Parse(Head(line_receiver)) = NoEntries
               THEN [kind |-> "err", val |-> "FillError", prefix |-> p]
               ELSE TryFillResult(line_map', p)
    /\ UNCHANGED <<nsent, var_prefix>>
    /\ UNCHANGED <<cellVars, taskVars, macroVars, fulfillVars, runVars, pipeVars>>

\* JsonlFiller::try_fill(var_prefix), called directly
TryFill(p) ==
    /\ Update
    /\ fill' = TryFillResult(line_map', p)
    /\ UNCHANGED <<nsent, var_prefix>>
    /\ UNCHANGED <<cellVars, taskVars, macroVars, fulfillVars, runVars, pipeVars>>

FillerNext ==
    \/ \E msg \in Messages : JsonlSend(msg)
    \/ \E p \in PrefixArgs : TryFill(p)

FillerSpec == Init /\ [][FillerNext]_vars

-----------------------------------------------------------------------------
(* fulfill::jsonl::Jsonl: the engine whose try_get is the filler's try_fill *)
(* under the prefix the engine was created with.                            *)

\* Jsonl::new(dependency, var_prefix)
JsonlNew(p) ==
    /\ var_prefix = "unset"
    /\ var_prefix' = p
    /\ UNCHANGED <<line_receiver, line_map, nsent, received, fill>>
    /\ UNCHANGED <<cellVars, taskVars, macroVars, fulfillVars, runVars, pipeVars>>

\* Jsonl::try_get: the answer of try_fill, every error of which is wrapped
\* into FulfillError::Fulfill
JsonlTryGet(r) ==
    IF r.kind = "err" THEN [kind |-> "err", val |-> "Fulfill"]
    ELSE [kind |-> r.kind, val |-> r.val]

\* an attempt that constructs the target before it receives the message
JsonlAttemptStale ==
    /\ var_prefix # "unset"
    /\ Update
    /\ fill' = TryFillResult(line_map, var_prefix)
    /\ FFAttempt(JsonlTryGet(fill'))
    /\ UNCHANGED <<nsent, var_prefix>>

\* try_fulfill on the engine, up to the point where try_get has answered
JsonlAttempt ==
    /\ var_prefix # "unset"
    /\ Update
    /\ fill' = TryFillResult(line_map', var_prefix)
    /\ FFAttempt(JsonlTryGet(fill'))
    /\ UNCHANGED <<nsent, var_prefix>>

\* try_fulfill called by the owner of the engine
JsonlTryFulfill ==
    /\ runpc = "off"
    /\ JsonlAttempt
    /\ UNCHANGED runVars

JsonlNext ==
    \/ \E p \in PrefixArgs : JsonlNew(p)
    \/ \E msg \in Messages : JsonlSend(msg)
    \/ JsonlTryFulfill
    \/ EngineSetStep

JsonlSpec == Init /\ [][JsonlNext]_vars

\* run called on the engine
JsonlRunStart == var_prefix # "unset" /\ RunStart

\* the loop body of run calls try_fulfill
JsonlRunCall ==
    /\ runpc = "loop"
    /\ JsonlAttempt
    /\ runpc' = "called"
    /\ UNCHANGED runret

JsonlRunNext ==
    \/ \E p \in PrefixArgs : JsonlNew(p)
    \/ \E msg \in Messages : JsonlSend(msg)
    \/ JsonlRunStart
    \/ JsonlRunCall
    \/ EngineSetStep
    \/ RunMatch

JsonlRunSpec == Init /\ [][JsonlRunNext]_vars

\* run is a spawned future: once called it is polled whenever it can go on,
\* which for an attempt means that a message is waiting in the channel
JsonlRunFairSpec ==
    /\ JsonlRunSpec
    /\ WF_vars(JsonlRunCall)
    /\ WF_vars(EngineSetStep)
    /\ WF_vars(RunMatch)

\* the reader that gets the value of the engine's State
Getter == CHOOSE r \in Readers : TRUE

\* the engine under run, and a reader calling get on its State
JsonlReadNext ==
    \/ JsonlRunNext
    \/ GetCall(Getter, "get")
    \/ GetRead(Getter)

JsonlReadSpec == Init /\ [][JsonlReadNext]_vars

----------------------------------------------------------------------------
(* Scheduling.  The runtime polls a task that has been woken or whose lock  *)
(* request has been granted, so a step of a call in progress that is        *)
(* enabled is eventually taken.  Nothing obliges a caller to start a call,  *)
(* and nothing obliges a timer to expire before the value arrives.          *)

WriterProgress(w) == SetStore(w) \/ SetNotify(w) \/ SetRelease(w)

\* a reader that holds a read guard is inside a poll and finishes it
ReaderPoll(r) == WFCheck1(r) \/ WFCheck2(r) \/ GetRead(r)

ReaderProgress(r) ==
    ReaderPoll(r) \/ WFSubscribe(r) \/ WFAwait(r) \/ WFWake(r)

FairSpec ==
    /\ Init /\ [][Next]_vars
    /\ \A w \in Writers : WF_vars(WriterProgress(w))
    /\ \A r \in Readers : WF_vars(ReaderProgress(r))

\* Only the writer and the polls that hold a guard are scheduled: a reader
\* between polls or suspended on the notifier may never run again.
WriterFairSpec ==
    /\ Init /\ [][Next]_vars
    /\ \A w \in Writers : WF_vars(WriterProgress(w))
    /\ \A r \in Readers : WF_vars(ReaderPoll(r))

\* The runtime polls a spawned task that is ready to run, and the awaiting
\* owner is polled once the join is ready.
TaskFairSpec ==
    /\ Init /\ [][TaskNext]_vars
    /\ \A t \in Tasks : WF_vars(WorkStep(t))
    /\ \A t \in Tasks : WF_vars(TaskJoin(t))

----------------------------------------------------------------------------
(* commander: pipe_output reads a stream of the command line by line,       *)
(* writes each line to the default writer and sends it to every sender      *)
(* registered for the stream.  The key/value engine's channel is subscribed *)
(* to both streams through two clones of its sender; "a" is subscribed to   *)
(* stdout and "b" to stderr.                                                *)

\* the capacity of a channel, standing for channel(100) and channel(10)
ChanCap == 2

\* the lines the command writes to each stream, if it gets to write them all
Stream(s) ==
    IF s = "stdout"
    THEN << <<"JSONL", "key", "=", "v">>, <<"JSONL", "number", "=", "42">>,
            <<"log">> >>
    ELSE << <<"JSONL", "key", "=", "w">>, <<"key", "=", "v">> >>

\* stdout_senders and stderr_senders
Senders(s) == IF s = "stdout" THEN <<"engine", "a">> ELSE <<"engine", "b">>

\* format!("{}\n", line): the message is a text of one line
Formatted(line) == <<line>>

\* a run whose return leaves the receiving end of the engine's channel alive
ClosedNotByReturn(c) == IF c = "engine" THEN FALSE ELSE ~open[c]

\* the receiver of the channel is gone: run(mut self) has returned and
\* dropped the engine, or the subscriber has dropped its receiver
Closed(c) == IF c = "engine" THEN runpc = "done" ELSE ~open[c]

Queue(c) == IF c = "engine" THEN line_receiver ELSE chan[c]

\* Command::run starts pipe_output on the stream; the senders were obtained
\* from the engine before
PipeStart(s) ==
    /\ ppc[s] = "off"
    /\ var_prefix # "unset"
    /\ ppc' = [ppc EXCEPT ![s] = "read"]
    /\ UNCHANGED <<ppos, pidx, written, chan, got, open>>
    /\ UNCHANGED <<cellVars, taskVars, macroVars, fulfillVars, jsonlVars,
                   runVars>>

\* while let Ok(Some(line)) = reader.next_line().await: the next line, or
\* the end of the stream, which the command may reach after any of its lines
PipeRead(s) ==
    /\ ppc[s] = "read"
    /\ \E eof \in BOOLEAN :
        /\ ppos[s] = Len(Stream(s)) => eof
        /\ ppc' = [ppc EXCEPT ![s] = IF eof THEN "done" ELSE "write"]
    /\ UNCHANGED <<ppos, pidx, written, chan, got, open>>
    /\ UNCHANGED <<cellVars, taskVars, macroVars, fulfillVars, jsonlVars,
                   runVars>>

\* default_writer.write_all and flush
PipeWrite(s) ==
    /\ ppc[s] = "write"
    /\ written' = [written EXCEPT
                     ![s] = Append(@, Formatted(Stream(s)[ppos[s] + 1]))]
    /\ ppc' = [ppc EXCEPT ![s] = "send"]
    /\ pidx' = [pidx EXCEPT ![s] = 1]
    /\ UNCHANGED <<ppos, chan, got, open>>
    /\ UNCHANGED <<cellVars, taskVars, macroVars, fulfillVars, jsonlVars,
                   runVars>>

\* the send to channel c: an error for a closed channel, otherwise the
\* message is queued once the channel has room
Deliver(c, msg) ==
    IF Closed(c)
    THEN UNCHANGED <<line_receiver, nsent, chan>>
    ELSE /\ Len(Queue(c)) < ChanCap
         /\ IF c = "engine"
            THEN /\ line_receiver' = Append(line_receiver, msg)
                 /\ nsent' = nsent + 1
                 /\ UNCHANGED chan
            ELSE /\ chan' = [chan EXCEPT ![c] = Append(@, msg)]
                 /\ UNCHANGED <<line_receiver, nsent>>

\* a fan-out that sends the line to the first sender only
PipeSendFirstOnly(s) ==
    /\ ppc[s] = "send"
    /\ Deliver(Senders(s)[1], Formatted(Stream(s)[ppos[s] + 1]))
    /\ pidx' = [pidx EXCEPT ![s] = 0]
    /\ ppos' = [ppos EXCEPT ![s] = @ + 1]
    /\ ppc' = [ppc EXCEPT ![s] = "read"]
    /\ UNCHANGED <<written, got, open, line_map, var_prefix, received, fill>>
    /\ UNCHANGED <<cellVars, taskVars, macroVars, fulfillVars, runVars>>

\* for sender in senders { let _ = sender.send(formatted_line.clone()).await; }
\* one turn of the loop; after the last sender the next line is read
PipeSend(s) ==
    /\ ppc[s] = "send"
    /\ Deliver(Senders(s)[pidx[s]], Formatted(Stream(s)[ppos[s] + 1]))
    /\ IF pidx[s] < Len(Senders(s))
       THEN /\ pidx' = [pidx EXCEPT ![s] = @ + 1]
            /\ UNCHANGED <<ppc, ppos>>
       ELSE /\ pidx' = [pidx EXCEPT ![s] = 0]
            /\ ppos' = [ppos EXCEPT ![s] = @ + 1]
            /\ ppc' = [ppc EXCEPT ![s] = "read"]
    /\ UNCHANGED <<written, got, open, line_map, var_prefix, received, fill>>
    /\ UNCHANGED <<cellVars, taskVars, macroVars, fulfillVars, runVars>>

\* a subscriber receives the next message of its channel
SubRecv(c) ==
    /\ open[c]
    /\ chan[c] # <<>>
    /\ got' = [got EXCEPT ![c] = Append(@, Head(chan[c]))]
    /\ chan' = [chan EXCEPT ![c] = Tail(@)]
    /\ UNCHANGED <<ppc, ppos, pidx, written, open>>
    /\ UNCHANGED <<cellVars, taskVars, macroVars, fulfillVars, jsonlVars,
                   runVars>>

\* a subscriber drops its receiver
SubDrop(c) ==
    /\ open[c]
    /\ open' = [open EXCEPT ![c] = FALSE]
    /\ UNCHANGED <<ppc, ppos, pidx, written, chan, got>>
    /\ UNCHANGED <<cellVars, taskVars, macroVars, fulfillVars, jsonlVars,
                   runVars>>

PipeStep(s) ==
    \/ PipeStart(s)
    \/ PipeRead(s)
    \/ PipeWrite(s)
    \/ PipeSend(s)

\* a command run with its output piped to the key/value engine under run
\* and to two more subscribers
PipeNext ==
    \/ \E p \in PrefixArgs : JsonlNew(p)
    \/ \E s \in Streams : PipeStep(s)
    \/ \E c \in Subscribers : SubRecv(c)
    \/ \E c \in Subscribers : SubDrop(c)
    \/ JsonlRunStart
    \/ JsonlRunCall
    \/ EngineSetStep
    \/ RunMatch

PipeSpec == Init /\ [][PipeNext]_vars

\* the engine's steps under run
EngineRunStep ==
    \/ JsonlRunStart
    \/ JsonlRunCall
    \/ EngineSetStep
    \/ RunMatch

\* The engine is constructed and run, the command is run and its pipes are
\* polled, and every subscriber keeps receiving from its channel.
PipeFairSpec ==
    /\ Init /\ [][PipeNext]_vars
    /\ WF_vars(\E p \in PrefixArgs : JsonlNew(p))
    /\ WF_vars(EngineRunStep)
    /\ \A s \in Streams : WF_vars(PipeStep(s))
    /\ \A c \in Subscribers : WF_vars(SubRecv(c))

----------------------------------------------------------------------------
(* A Task owned by the work of another Task.  The child's Task is a local   *)
(* of the parent's future: the parent's work awaits it inside a poll, and   *)
(* the runtime drops it with the parent's future when the parent's task     *)
(* ends, which runs impl Drop for Task on the child.                        *)

Parent == "t1"
Child == "t2"

\* the parent's work, inside a poll, starts to await the child or finds the
\* awaited child ready
ParentUsesChild ==
    /\ wstate[Parent] = "running"
    /\ (TaskAwait(Child) \/ TaskJoin(Child))

\* mutant: the parent's future goes away without the child's Task being
\* dropped, as if the work had leaked it
ParentTeardownLeaks ==
    /\ Terminal(Parent)
    /\ handle[Child] \in {"held", "awaiting"}
    /\ handle' = [handle EXCEPT ![Child] = "dropped"]
    /\ UNCHANGED <<wstate, pos, aflag, cancelReq, output, result, dropInfo,
                   lateAbort>>
    /\ UNCHANGED notTask

\* the parent's task has ended (completed, aborted, cancelled or panicked):
\* its future is dropped and the child's Task with it
ParentTeardown ==
    /\ Terminal(Parent)
    /\ TaskDrop(Child)

NestNext ==
    \/ \E t \in Tasks : WorkStep(t)
    \/ OwnerStep(Parent)
    \/ ParentUsesChild
    \/ ParentTeardown
    \/ TaskDropEnd(Child)

NestSpec == Init /\ [][NestNext]_vars

\* a task whose abort was requested is woken and polled
Woken(t) == PollStart(t) /\ (aflag[t] \/ cancelReq[t])

\* A poll in progress ends, a task whose abort was requested is polled, and
\* the drop of a future runs to its end.  Nothing else has to happen: the
\* work may wait for ever for what it awaits.
NestFairSpec ==
    /\ Init /\ [][NestNext]_vars
    /\ \A t \in Tasks : WF_vars(Woken(t))
    /\ \A t \in Tasks : WF_vars(PollEnd(t) \/ PollPanic(t))
    /\ WF_vars(ParentTeardown)
    /\ WF_vars(TaskDropEnd(Child))

----------------------------------------------------------------------------
(* Properties of the State cell.                                           *)

InWait(r) == pc[r] \in {"c1", "sub", "c2", "await", "susp"}
Returns(r) == pc[r] # "idle" /\ pc'[r] = "idle"
SetsDone == nStarted = nCompleted

\* C1: no lost wakeup.  Once set has been called, every reader that is in
\* wait_forever (whether it started before the set, after it, or was between
\* its first check and its registration) eventually returns, and what it
\* returns is the argument of a set call (of the set call, when there is one).
C1_NoLostWakeup ==
    \A r \in Readers :
        (mode[r] = "ever" /\ nStarted > 0)
            ~> (pc[r] = "idle" /\ ret.who = r /\ ret.op = "ever"
                /\ ret.val \in setArgs)

\* a reader that registered before the set has been woken by it, after
\* another reader has already returned the value
C1_Witness ==
    \E r1, r2 \in Readers :
        /\ r1 # r2
        /\ mode[r1] = "ever" /\ pc[r1] = "susp" /\ r1 \notin waiters
        /\ ret.who = r2 /\ ret.op = "ever" /\ ret.val = inner
        /\ nStarted = 1

\* C2: reads only observe values stored by a set.  get returns empty or the
\* argument of a set call already started, is_set is true only after a set
\* call has started, and a wait returns only the argument of a set call
\* already started (or the timeout); so before the first set, get is empty,
\* is_set is false and wait_forever has not returned.
C2_ReadsObserveSets ==
    /\ ret.op = "get" => ret.val \in setArgs \cup {None}
    /\ ret.op = "is_set" => (setArgs = {} => ret.val = "false")
    /\ ret.op = "ever" => ret.val \in setArgs
    /\ ret.op = "duration" => ret.val \in setArgs \cup {Timeout}

C2_Witness ==
    /\ nStarted = 1
    /\ ret.op = "get" /\ ret.val \in Values

\* C3 as claimed: once filled, the slot never changes again.
C3_SingleAssignment == [][inner # None => inner' = inner]_vars

\* C3 as amended: once filled, the slot is never cleared, and it changes only
\* in the store of a later set call, which replaces the value by its argument.
C3_NeverCleared ==
    [][inner # None =>
         /\ inner' # None
         /\ inner' # inner =>
               \E w \in Writers : /\ pc[w] = "store" /\ pc'[w] = "notify"
                                  /\ inner' = arg[w]]_vars

C3_Witness ==
    \E w \in Writers : pc[w] = "notify" /\ nStarted = 2 /\ inner = arg[w]
                       /\ setArgs = Values

\* C4: a set called after an earlier set has completed replaces the value.
\* Once the later set has returned (and no further set has been called), every
\* get and every wait_forever that returns, returns its argument.
C4_SetReplaces ==
    [][\A r \in Readers :
         (nStarted >= 2 /\ SetsDone /\ Returns(r) /\ ret'.op \in {"get", "ever"})
             => \A w \in Writers : ret'.val = arg[w]]_vars

C4_Witness ==
    /\ nStarted = 2 /\ SetsDone /\ setArgs = Values
    /\ ret.op = "get" /\ \A w \in Writers : ret.val = arg[w]

\* C5: set never waits for readers.  When only the writer and the polls that
\* hold a read guard are scheduled, every set call returns, whatever number of
\* readers is suspended in a wait.
C5_SetCompletes ==
    \A w \in Writers : (pc[w] # "idle") ~> (pc[w] = "idle")

\* a set has returned while a reader it woke is still suspended
C5_Witness ==
    \E r \in Readers : pc[r] = "susp" /\ nCompleted >= 1 /\ r \notin waiters

\* C6: wait_for(duration) leaves the slot unchanged.  No step of a
\* wait_for(duration) call changes the slot, whichever branch wins, and when
\* the call returns it holds no guard and is neither queued for the lock nor
\* in the notifier's waiter list.
C6_WaitForFrame ==
    [][\A r \in Readers :
         (mode[r] = "duration" /\ pc'[r] # pc[r]) =>
             /\ inner' = inner
             /\ pc'[r] = "idle" =>
                   /\ r \notin lock'.readers
                   /\ \A i \in 1..Len(lock'.queue) : lock'.queue[i].p # r
                   /\ r \notin waiters']_vars

\* the timer has won on a slot that a set had filled
C6_Witness ==
    ret.op = "duration" /\ ret.val = Timeout /\ inner # None

TimesOut(r) == Returns(r) /\ ret'.val = Timeout
WaitReturns(r) == Returns(r) /\ mode[r] \in WaitModes /\ ret'.val # Timeout

\* C7 as claimed: the timeout error only in Duration mode and only after the
\* timer has expired, Ok(v) only when the slot holds v, never an error in EVER
\* mode, and no timeout when the slot was filled as wait_for(duration) was
\* called.
C7_TimeoutOnlyIfEmpty ==
    [][\A r \in Readers :
         /\ TimesOut(r) => /\ mode[r] = "duration" /\ timer[r] = "expired"
                           /\ ~atCall[r].filled
         /\ WaitReturns(r) => inner # None /\ ret'.val = inner
         /\ (Returns(r) /\ mode[r] = "ever") => ret'.val # Timeout]_vars

\* C7 as amended: no timeout when the slot was filled as wait_for(duration)
\* was called and the first check got the read lock at once.
C7_TimeoutOnlyIfPending ==
    [][\A r \in Readers :
         /\ TimesOut(r) => /\ mode[r] = "duration" /\ timer[r] = "expired"
                           /\ ~(atCall[r].filled /\ atCall[r].granted)
         /\ WaitReturns(r) => inner # None /\ ret'.val = inner
         /\ (Returns(r) /\ mode[r] = "ever") => ret'.val # Timeout]_vars

\* wait_for(duration) was called on a filled slot and got the read lock at
\* once; its timer has expired before its first check has run
C7_Witness ==
    \E r \in Readers :
        /\ mode[r] = "duration" /\ timer[r] = "expired"
        /\ atCall[r].filled /\ atCall[r].granted

\* C8: a timeout is recoverable.  After a wait_for(duration) has timed out,
\* once set has been called every reader that is in wait_forever (another
\* reader, suspended since before the timeout, or the reader that timed out,
\* waiting again) eventually returns the argument of a set call.
C8_TimeoutRecoverable ==
    \A r \in Readers :
        (timedOut # {} /\ mode[r] = "ever" /\ nStarted > 0)
            ~> (pc[r] = "idle" /\ ret.who = r /\ ret.val \in setArgs)

\* the reader that timed out waits again and is about to return the value,
\* right after a reader that was suspended has returned it
C8_Witness ==
    \E r \in timedOut :
        /\ mode[r] = "ever" /\ pc[r] = "c1" /\ r \in lock.readers
        /\ inner # None
        /\ ret.who # r /\ ret.op = "ever" /\ ret.val = inner

----------------------------------------------------------------------------
(* Properties of Task.                                                     *)

DroppedRunning(t) == handle[t] = "dropped" /\ dropInfo[t].at >= 0
Allowance(t) == IF dropInfo[t].running THEN 1 ELSE 0

\* C9 as claimed: after the drop of a Task whose work is still running, the
\* work does not get past its next suspension point and never completes with
\* an output.
C9_DropCancels ==
    \A t \in Tasks :
        DroppedRunning(t) =>
            /\ pos[t] <= dropInfo[t].at + Allowance(t)
            /\ output[t] # Completed

\* C9 as amended: after the drop the work does not get past its next
\* suspension point; it completes with an output only when the drop found it
\* inside its last poll, the one that returns the output.
C9_DropCancelsUnlessLastPoll ==
    \A t \in Tasks :
        DroppedRunning(t) =>
            /\ pos[t] <= dropInfo[t].at + Allowance(t)
            /\ output[t] = Completed =>
                  dropInfo[t].running /\ dropInfo[t].at + 1 = WorkLen

\* a Task was dropped while its work was suspended before its last poll, and
\* the work has ended cancelled where the drop found it
C9_Witness ==
    \E t \in Tasks :
        /\ DroppedRunning(t) /\ ~dropInfo[t].running
        /\ output[t] = CancelledOut /\ pos[t] = dropInfo[t].at
        /\ pos[t] + 1 = WorkLen

\* C10: the terminal outcome is sticky.  Once the task is terminal its stored
\* outcome never changes and the work runs no more, whatever abort or drop
\* comes later; and when the work has completed with its output, awaiting the
\* Task yields Ok(v).
C10_TerminalSticky ==
    [][\A t \in Tasks :
         /\ Terminal(t) => /\ output'[t] = output[t]
                           /\ wstate'[t] = "done" /\ pos'[t] = pos[t]
         /\ (output[t] = Completed /\ handle[t] = "awaiting"
             /\ handle'[t] = "joined") => result'[t] = "Ok"
         /\ (output[t] # Completed /\ handle'[t] = "joined")
                => result'[t] # "Ok"]_vars

\* abort was called after the work had completed, and the await gave Ok(v)
C10_Witness ==
    \E t \in Tasks :
        /\ lateAbort[t] /\ cancelReq[t] = FALSE
        /\ output[t] = Completed /\ result[t] = "Ok"

RaceOutcomes == {"Ok", "Aborted", "JoinCancelled"}

\* C11: abort racing with the completion of work that does not panic.  What
\* awaiting the Task yields is Ok, and then the work has run to its end and
\* stored its output, or one of the two cancellation outcomes; and an await
\* that has begun ends with an outcome (unless the await itself is dropped).
C11_RaceOutcome ==
    /\ [](\A t \in Tasks :
            (handle[t] = "joined" /\ output[t] # PanicOut) =>
                /\ result[t] \in RaceOutcomes
                /\ result[t] = "Ok" => output[t] = Completed /\ pos[t] = WorkLen
                /\ result[t] # "Ok" => output[t] \in {AbortedOut, CancelledOut})
    /\ \A t \in Tasks :
            (handle[t] = "awaiting")
                ~> (handle[t] \in {"joined", "dropping", "dropped"})

\* abort was called before the work was terminal and the await gave Ok(v) for
\* one task; for the other the same race ended in a cancellation
C11_Witness ==
    \E t, u \in Tasks :
        /\ cancelReq[t] /\ handle[t] = "joined" /\ result[t] = "Ok"
        /\ cancelReq[u] /\ handle[u] = "joined" /\ result[u] = "JoinCancelled"
        /\ pos[u] + 1 = WorkLen

Cancelled(t) == output[t] \in {AbortedOut, CancelledOut}

\* C12: what Task::maybe makes of the await.  A task cancelled by abort before
\* its work completed gives Ok(Maybe::Aborted), completed work gives
\* Ok(Maybe::Value(v)), and an Err is given only for a join failure that is
\* no cancellation.
C12_MaybeWrapsAbort ==
    \A t \in Tasks :
        handle[t] = "joined" =>
            /\ Cancelled(t) => Maybe(result[t]) = "MaybeAborted"
            /\ output[t] = Completed => Maybe(result[t]) = "Value"
            /\ Maybe(result[t]) \in {"ErrJoinCancelled", "ErrJoinPanic"}
                   => output[t] = PanicOut

----------------------------------------------------------------------------
(* Properties of the macros.                                               *)

Listed == 1..Len(TaskList)
AwaitBegins(t) == handle[t] = "held" /\ handle'[t] = "awaiting"
AwaitEnds(t) == handle[t] = "awaiting" /\ handle'[t] = "joined"

\* C13: await_allow_abort! awaits the listed tasks one at a time in the listed
\* order.  The await of a task begins only when every task listed before it
\* has been awaited with success; a cancelled outcome, by either path, counts
\* as success; and from the first other failure on the macro keeps that error
\* and awaits no further task.
C13_AwaitInOrder ==
    [][mac = "await" =>
         \A i \in Listed :
             LET t == TaskList[i] IN
             /\ AwaitBegins(t) =>
                   /\ mres = "Ok"
                   /\ \A u \in Tasks \ {t} : handle[u] # "awaiting"
                   /\ \A j \in 1..(i - 1) :
                         /\ handle[TaskList[j]] = "joined"
                         /\ output[TaskList[j]] # PanicOut
             /\ AwaitEnds(t) =>
                   mres' = IF output[t] = PanicOut THEN "Err" ELSE "Ok"
             /\ mres = "Err" => mres' = "Err" /\ handle'[t] = handle[t]]_vars

\* the first listed task failed and the macro has returned the error without
\* awaiting the second, whose work is still running
C13_Witness ==
    /\ mac = "await" /\ mphase = "done" /\ mres = "Err"
    /\ result[TaskList[1]] = "JoinPanic"
    /\ handle[TaskList[2]] = "held" /\ ~Terminal(TaskList[2])

Returned(m) == mac = m /\ mphase = "done"
Ended(t) == output[t] \in {Completed, AbortedOut, CancelledOut}

\* C14: await_allow_abort! has returned.  Its result is Ok exactly when no
\* listed task ended with a failure that is no cancellation, and when it is Ok
\* every listed task has been awaited and is terminal, completed or cancelled.
C14_OkIffNoFailure ==
    Returned("await") =>
        /\ mres = "Ok" <=> \A t \in Tasks : output[t] # PanicOut
        /\ mres = "Ok" => \A t \in Tasks : handle[t] = "joined" /\ Ended(t)

\* Ok over one task that completed and one that was cancelled
C14_Witness ==
    /\ Returned("await") /\ mres = "Ok"
    /\ \E t, u \in Tasks : output[t] = Completed /\ output[u] = CancelledOut

\* C15: abort! requests cancellation on every listed task and awaits none.
\* Each of its statements can run whatever the work does, no task is awaited,
\* and when it has returned is_aborted() is true of every listed task.
C15_AbortAll ==
    mac = "abort" =>
        /\ \A t \in Tasks : handle[t] \in {"held", "aborting"}
        /\ mphase = "abort" => ENABLED MacroStep
        /\ mphase = "done" => \A t \in Tasks : aflag[t]

\* abort! has returned and no work has observed the cancellation yet: one
\* task is suspended, the other is in a poll
C15_Witness ==
    /\ Returned("abort")
    /\ \A t \in Tasks : ~Terminal(t) /\ cancelReq[t]
    /\ \E t, u \in Tasks : wstate[t] = "idle" /\ wstate[u] = "running"

\* C16: teardown ordering.  When the first await of end! begins (and any
\* later one), cancellation has been requested on every listed task: its
\* abort flag is set and its JoinHandle was aborted unless the task was
\* terminal already.
C16_CancelBeforeAwait ==
    [][mac = "end" =>
         \A t \in Tasks :
             AwaitBegins(t) =>
                 \A u \in Tasks :
                     /\ aflag[u] /\ handle[u] # "aborting"
                     /\ cancelReq[u] \/ Terminal(u)]_vars

\* the first await of end! has begun while the work of the other task, whose
\* cancellation was requested, is still in a poll
C16_Witness ==
    /\ mac = "end" /\ handle[TaskList[1]] = "awaiting"
    /\ handle[TaskList[2]] = "held" /\ cancelReq[TaskList[2]]
    /\ wstate[TaskList[2]] = "running"

\* C17: end! has returned.  Its result is Ok when every listed task ended
\* completed or cancelled, and with either result every listed task has been
\* awaited and is terminal.
C17_EndAwaitsAll ==
    Returned("end") =>
        /\ (\A t \in Tasks : Ended(t)) => mres = "Ok"
        /\ \A t \in Tasks : handle[t] = "joined" /\ Terminal(t)

\* C18: a join failure is never swallowed.  When await_allow_abort! or end!
\* has returned and the work of a listed task has panicked, the result is Err;
\* and the await of a task gives Ok only for completed or cancelled work.
C18_JoinFailurePropagates ==
    /\ (Returned("await") \/ Returned("end")) =>
           ((\E t \in Tasks : output[t] = PanicOut) => mres = "Err")
    /\ \A t \in Tasks :
           (handle[t] = "joined" /\ AwaitAllowAbort(result[t]) = "Ok")
               => Ended(t)

\* end! has returned Err for a second task whose work panicked in the poll
\* during which it was aborted, after a first task that was cancelled
C18_Witness ==
    /\ Returned("end") /\ mres = "Err"
    /\ result[TaskList[1]] = "JoinCancelled"
    /\ result[TaskList[2]] = "JoinPanic" /\ cancelReq[TaskList[2]]

----------------------------------------------------------------------------
(* Properties of the fulfilment engine.                                    *)

FFReturned == ffpc = "idle" /\ ffn > 0

\* C19: an attempt whose try_get yields Some(v).  When try_fulfill has
\* returned, it has returned Ok(v), the cell holds v and the engine holds no
\* guard, so that a get returning then, on any facet, yields v.
C19_CompleteStores ==
    (FFReturned /\ ffout.kind = "some") =>
        /\ ffret = [kind |-> "Ok", val |-> ffout.val]
        /\ inner = ffout.val
        /\ ~HoldsWrite(Engine) /\ ~InQueue(Engine)
        /\ ret.op = "get" => ret.val = ffout.val

\* a get has returned the value of the attempt that has just returned Ok
C19_Witness ==
    /\ FFReturned /\ ffret.kind = "Ok"
    /\ ret.op = "get" /\ ret.val = ffret.val

\* C20: an attempt whose try_get yields None or an Err.  The attempt changes
\* neither the slot nor the lock, wakes no reader, and returns an Err; after
\* it has returned, the slot and the notifier are as the attempt found them.
C20_IncompleteFrame ==
    [][(ffn' # ffn /\ ffout'.kind # "some") =>
           /\ ffpc' = "idle" /\ ffret'.kind = "Err"
           /\ inner' = inner /\ lock' = lock
           /\ calls' = calls /\ waiters' = waiters
           /\ (FFReturned /\ ffout.kind # "some") =>
                  inner = ffpre.inner /\ calls = ffpre.calls]_vars

\* a second attempt has failed and a reader registered with the notifier before
\* it is still suspended
C20_Witness ==
    /\ FFReturned /\ ffout.kind = "err" /\ ffn = 2
    /\ \E r \in Readers : pc[r] = "susp" /\ r \in waiters


\* C21: run returns Ok(v) only when the latest attempt was Complete(v) and the
\* State holds v, returns Err only with the error of an attempt that failed
\* for a reason other than "not yet", and as long as it has not returned the
\* loop can make another attempt.
C21_RunTerminates ==
    /\ runpc = "done" =>
        \/ /\ runret.kind = "Ok"
           /\ ffout = [kind |-> "some", val |-> runret.val]
           /\ inner = runret.val
        \/ /\ runret.kind = "Err"
           /\ runret.val # "Fulfill"
           /\ ffout = [kind |-> "err", val |-> runret.val]
    /\ runpc # "done" => runret = NoAttempt
    /\ (runpc = "called" /\ ffpc = "idle") => ENABLED RunMatch
    /\ (runpc = "loop" /\ ffn < MaxAttempts) => ENABLED (\E o \in Outcomes : RunCall(o))

\* run has returned Ok after an attempt that was retried
C21_Witness ==
    /\ runpc = "done"
    /\ runret.kind = "Ok"
    /\ ffn = MaxAttempts
    /\ ffpre.calls = 0

\* C25: from the point where an attempt has come back Incomplete, no step
\* makes run return: its only continuation is another turn of the loop.
C25_IncompleteRetried ==
    [][(runpc = "called" /\ ffpc = "idle" /\ ffout.kind = "none")
        => (runpc' \in {"called", "loop"} /\ runret' = NoAttempt)]_vars

\* an attempt has come back Incomplete and the loop has gone round
C25_Witness ==
    /\ runpc = "loop"
    /\ ffn > 0
    /\ ffout.kind = "none"
    /\ ffret = [kind |-> "Err", val |-> "Fulfill"]



\* all lines of the messages received so far, oldest first
RECURSIVE Flatten(_)
Flatten(msgs) == IF msgs = <<>> THEN <<>> ELSE Head(msgs) \o Flatten(Tail(msgs))

ReceivedLines == Flatten(received)

\* the positions of the received lines that match and name k
LinesFor(k) ==
    {i \in 1..Len(ReceivedLines) :
        Matches(ReceivedLines[i]) /\ VarName(ReceivedLines[i]) = k}

Last(S) == CHOOSE i \in S : \A j \in S : j <= i

\* C26: the line map holds, for every name that has occurred in a received
\* matching line, the value of the last such line, and no entry otherwise;
\* as the received lines only grow, an entry once present stays present.
C26_LastWriteWins ==
    \A k \in Keys :
        IF LinesFor(k) = {} THEN line_map[k] = Absent
        ELSE line_map[k] = Interpret(ValueStr(ReceivedLines[Last(LinesFor(k))]))

\* three messages have been processed: two lines for "key" with different
\* values and, between them, a line for another name
C26_Witness ==
    /\ Len(received) = 3
    /\ Cardinality(LinesFor("key")) = 2
    /\ ReceivedLines[1] = <<"JSONL", "key", "=", "v">>
    /\ LinesFor("number") = {2}
    /\ line_map["key"] = Interpret("w")


\* the entry field F is to be read from under prefix p: the prefixed entry if
\* there is one, the bare entry otherwise, and the bare entry without a prefix
Source(p, F) ==
    IF p # None /\ line_map[Prefixed[F]] # Absent
    THEN line_map[Prefixed[F]]
    ELSE line_map[F]

\* C27: a target that try_fill constructed under prefix p has each field read
\* from the prefixed entry when it exists and from the bare entry only when
\* it does not (without a prefix, from the bare entry); and no target is
\* refused while each of these entries is there and converts.
C27_PrefixFallback ==
    /\ fill.kind = "some" =>
        fill.val = Built([F \in {"key", "number"} |-> Source(fill.prefix, F).text])
    /\ fill.kind \in {"none", "err"} =>
        \E F \in {"key", "number"} :
            \/ Source(fill.prefix, F) = Absent
            \/ ~Deserializes(Source(fill.prefix, F), FieldType[F])

\* a target built under the prefix with "key" present both prefixed and
\* bare, with different values, and "number" present only bare
C27_Witness ==
    /\ fill.kind = "some"
    /\ fill.prefix = "p"
    /\ line_map["p_key"] # Absent
    /\ line_map["key"] # Absent
    /\ line_map["p_key"] # line_map["key"]
    /\ line_map["p_number"] = Absent


\* field F has no entry to be read from, or one that does not convert
Missing(F) == Source(fill.prefix, F) = Absent
Malformed(F) == ~Missing(F) /\ ~Deserializes(Source(fill.prefix, F), FieldType[F])

\* C28 as stated: Incomplete whenever some required field has no entry,
\* Fatal when an entry is present but does not convert, Complete when every
\* required field has an entry that converts.
C28_Classifies ==
    fill # NoFill =>
        /\ (\E F \in {"key", "number"} : Missing(F)) => fill.kind = "none"
        /\ (\E F \in {"key", "number"} : Malformed(F)) => fill.kind = "err"
        /\ (\A F \in {"key", "number"} : ~Missing(F) /\ ~Malformed(F))
            => fill.kind = "some"

\* the required fields, by position, that have no usable entry
Unusable == {i \in 1..Len(Fields) : Missing(Fields[i]) \/ Malformed(Fields[i])}

First(S) == CHOOSE i \in S : \A j \in S : i <= j

\* C28, amended: the first required field in declaration order without a
\* usable entry decides: Incomplete if it has no entry, Fatal if its entry
\* does not convert; Complete when every required field has an entry that
\* converts.
C28_FirstFieldDecides ==
    fill # NoFill =>
        IF Unusable = {} THEN fill.kind = "some"
        ELSE IF Missing(Fields[First(Unusable)]) THEN fill.kind = "none"
             ELSE fill.kind = "err"

\* try_fill has answered Incomplete on a map in which the first field has no
\* entry and the second has one that does not convert
C28_Witness ==
    /\ fill.kind = "none"
    /\ Missing("key")
    /\ Malformed("number")


\* a step in which update receives the message msg
Receives(msg) ==
    /\ line_receiver # <<>>
    /\ Head(line_receiver) = msg
    /\ received' = Append(received, msg)

\* C29: a try_fill that receives a message none of whose lines matches the
\* marker shape leaves the line map as it was and returns what the map as it
\* was determines: the answer of the previous call, if that call was made with
\* the same prefix.
C29_NonMatchingIgnored ==
    [][\A msg \in Messages :
        (Receives(msg) /\ \A i \in 1..Len(msg) : ~Matches(msg[i]))
            => /\ line_map' = line_map
               /\ fill' = TryFillResult(line_map, fill'.prefix)
               /\ (fill # NoFill /\ fill'.prefix = fill.prefix) => fill' = fill]_vars

\* the latest message received had no matching line, an earlier one had, and
\* try_fill has answered
C29_Witness ==
    /\ Len(received) >= 2
    /\ \A i \in 1..Len(received[Len(received)]) :
            ~Matches(received[Len(received)][i])
    /\ line_map # NoEntries
    /\ fill # NoFill


\* the line map after the first k of the messages msgs
RECURSIVE MapAfter(_, _)
MapAfter(msgs, k) ==
    IF k = 0 THEN NoEntries
    ELSE Insert(MapAfter(msgs, k - 1), Parse(msgs[k]))

\* the attempts of the engine, one per received message, that were Complete
CompleteAttempts ==
    {k \in 1..Len(received) :
        TryFillResult(MapAfter(received, k), var_prefix).kind = "some"}

\* the messages sent so far supply every required field at some point
StreamSupplies ==
    /\ var_prefix # "unset"
    /\ \E k \in 1..Len(received \o line_receiver) :
        TryFillResult(MapAfter(received \o line_receiver, k), var_prefix).kind
            = "some"

\* C22: under run, set is called at most once on the State, and only by the
\* first (hence only) Complete attempt, with that attempt's value; every
\* attempt before it gets no set.  Once run is under way on a stream that
\* supplies every required field, set is eventually called and finished.
C22_SinglePublish ==
    /\ [](/\ nStarted <= 1
          /\ Cardinality(CompleteAttempts) <= 1
          /\ nStarted = 1 =>
                /\ CompleteAttempts = {Len(received)}
                /\ setArgs = {fill.val}
          /\ (CompleteAttempts # {} /\ ffpc # "set") => nStarted = 1)
    /\ ((StreamSupplies /\ runpc # "off") ~> (nStarted = 1 /\ nCompleted = 1))

\* run has returned after two Incomplete attempts and a Complete one, whose
\* value has been set
C22_Witness ==
    /\ runpc = "done"
    /\ Len(received) = 3
    /\ CompleteAttempts = {3}
    /\ nCompleted = 1
    /\ inner = fill.val


\* C23: once a try_fulfill call on the engine has returned Ok, no later step
\* begins another set on the State.
C23_IdempotentAfterSuccess ==
    [][nCompleted >= 1 => nStarted' = nStarted]_vars

\* C24: when try_fill has found an entry that does not convert, run goes no
\* further than matching that attempt's answer, and returns an error.
C24_FatalAborts ==
    fill.kind = "err" =>
        /\ runpc \in {"called", "done"}
        /\ runpc = "done" => runret.kind = "Err"


\* the field a name stands for
FieldOf == [key |-> "key", number |-> "number",
            p_key |-> "key", p_number |-> "number"]

\* a line that gives a field, bare or prefixed, a value of the field's type
FieldLine(l) ==
    /\ Len(l) = 4
    /\ MatchAt(l, 1)
    /\ Deserializes(Interpret(l[4]), FieldType[FieldOf[l[2]]])

\* the messages received were field lines, one line per message
FedOnePerAttempt ==
    \A i \in 1..Len(received) : Len(received[i]) = 1 /\ FieldLine(received[i][1])

\* the name under which the engine finds field F among the received lines
NameFor(F) ==
    IF var_prefix = "p" /\ LinesFor(Prefixed[F]) # {} THEN Prefixed[F] ELSE F

\* the received lines supply field F
Supplied(F) == LinesFor(NameFor(F)) # {}

\* the value the received lines give to field F
Given(F) == Interpret(ValueStr(ReceivedLines[Last(LinesFor(NameFor(F)))])).text

\* C30: with field lines fed one per attempt, the latest attempt is
\* Incomplete, and no set has begun, as long as a required field has not
\* been received; the attempt that receives the last missing one is Complete
\* with every field as received, and once run has returned, the State holds
\* that value and a get returns it.
C30_FedOnePerAttempt ==
    (FedOnePerAttempt /\ fill # NoFill) =>
        IF \E F \in {"key", "number"} : ~Supplied(F)
        THEN fill.kind = "none" /\ nStarted = 0
        ELSE /\ fill.kind = "some"
             /\ fill.val = Built([F \in {"key", "number"} |-> Given(F)])
             /\ runpc = "done" =>
                    /\ runret = [kind |-> "Ok", val |-> fill.val]
                    /\ inner = fill.val
                    /\ ret.op = "get" => ret.val = fill.val

\* three field lines have been fed, the third attempt was the Complete one,
\* run has returned and a get has since returned the value
C30_Witness ==
    /\ FedOnePerAttempt
    /\ Len(received) = 3
    /\ CompleteAttempts = {3}
    /\ runpc = "done"
    /\ ret.op = "get"
    /\ ret.val = fill.val


\* what a value text is to be stored as: the JSON value if the text is JSON
\* (42, "v", {}), else a floating-point number if it is a number (+42), else
\* a string holding the text (v, w, {bad)
Stored(t) ==
    CASE t = "42" -> [json |-> "number", text |-> "42"]
      [] t = "\"v\"" -> [json |-> "string", text |-> "v"]
      [] t = "{}" -> [json |-> "object", text |-> "{}"]
      [] t = "+42" -> [json |-> "float", text |-> "+42"]
      [] OTHER -> [json |-> "string", text |-> t]

C36_IsAbortedMeansAbortCalled ==
    /\ [](\A t \in Tasks :
            (lateAbort[t] /\ output[t] = Completed) =>
                /\ IsAborted(t)
                /\ handle[t] = "joined" => result[t] = "Ok")
    /\ [][\A t \in Tasks :
            (IsAborted(t)' /\ ~IsAborted(t)) =>
                /\ handle'[t] \in {"aborting", "dropping", "joined"}
                /\ handle[t] \in {"held", "awaiting"}]_vars

\* abort was called on a Task whose work had completed, is_aborted is true
\* and the await has yielded Ok
C36_Witness ==
    \E t \in Tasks :
        /\ lateAbort[t]
        /\ output[t] = Completed
        /\ IsAborted(t)
        /\ handle[t] = "joined"
        /\ result[t] = "Ok"


\* C40: set notifies with the value stored and the write lock held.  Hence
\* once a notification has gone out the slot is filled for every later
\* check, no reader is in the notifier's list of waiters, and no reader
\* enters suspension any more.
C40_WokenFindsFilled ==
    /\ [](calls > 0 => (inner # None /\ waiters = {}))
    /\ [][calls' # calls =>
            (inner # None /\ \E w \in Writers : HoldsWrite(w))]_vars
    /\ [][\A r \in Readers :
            (nCompleted > 0 /\ pc'[r] = "susp") => pc[r] = "susp"]_vars

\* a set has returned; a reader that was suspended in the notifier's list
\* has been taken off it by the notification and has its check before it
C40_Witness ==
    \E r \in Readers :
        /\ nCompleted > 0
        /\ SetsDone
        /\ mode[r] = "ever"
        /\ pc[r] = "susp"
        /\ r \notin waiters
        /\ inner # None


\* C34: every attempt of the engine has received exactly one message, the
\* messages received and waiting are the messages sent, and with nothing in
\* the channel no attempt can get on: the attempts never outnumber the
\* messages sent.
C34_NoBusyPoll ==
    /\ ffn = Len(received)
    /\ Len(received) + Len(line_receiver) = nsent
    /\ ffn <= nsent
    /\ line_receiver = <<>> => ~ENABLED JsonlRunCall

\* run has made two attempts, both Incomplete, has used up what was sent and
\* is suspended in its third
C34_Witness ==
    /\ runpc = "loop"
    /\ ffn = 2
    /\ nsent = 2
    /\ line_receiver = <<>>
    /\ CompleteAttempts = {}

----------------------------------------------------------------------------
(* Properties of nested Tasks.                                              *)

\* C37 as claimed: once abort was requested on the parent, by abort or by
\* drop, a child that is still running ends cancelled, and no work of the
\* child runs once the parent's handle has been released.
C37_CancelPropagates ==
    /\ [](handle[Parent] = "dropped" => wstate[Child] # "running")
    /\ (aflag[Parent] /\ ~Terminal(Child))
          ~> (output[Child] \in {AbortedOut, CancelledOut})

\* C37 as amended: the child's Task is dropped only when the parent's task
\* has ended; from that drop on the child's work does not get past its next
\* suspension point and completes only from inside its last poll; and once
\* abort was requested on the parent the child ends and its Task is gone.
C37_TeardownPropagates ==
    /\ [](handle[Child] \in {"dropping", "dropped"} => Terminal(Parent))
    /\ [](DroppedRunning(Child) =>
            /\ pos[Child] <= dropInfo[Child].at + Allowance(Child)
            /\ output[Child] = Completed =>
                  dropInfo[Child].running /\ dropInfo[Child].at + 1 = WorkLen)
    /\ aflag[Parent] ~>
          (Terminal(Child) /\ handle[Child] \in {"dropped", "joined"})

\* the parent's Task was dropped while the child was suspended before its
\* last poll; the parent ended without completing and the child ended
\* cancelled where the drop of its Task found it
C37_Witness ==
    /\ handle[Parent] = "dropped"
    /\ output[Parent] \in {AbortedOut, CancelledOut}
    /\ DroppedRunning(Child) /\ ~dropInfo[Child].running
    /\ output[Child] = CancelledOut /\ pos[Child] = dropInfo[Child].at
    /\ pos[Child] + 1 = WorkLen

----------------------------------------------------------------------------
(* Properties of the Line Channel and of the fan-out.                       *)

\* the messages pipe_output makes of the lines of stream s
StreamMsgs(s) == [i \in 1..Len(Stream(s)) |-> Formatted(Stream(s)[i])]

RECURSIVE From(_, _)
\* the messages of q that came from stream s, in the order of q
From(q, s) ==
    IF q = <<>> THEN <<>>
    ELSE IF \E i \in 1..Len(Stream(s)) : Head(q) = StreamMsgs(s)[i]
         THEN <<Head(q)>> \o From(Tail(q), s)
         ELSE From(Tail(q), s)

IsPrefix(p, q) == Len(p) <= Len(q) /\ p = SubSeq(q, 1, Len(p))

\* C31: what the engine's attempts have consumed and what waits in its
\* channel, taken together and restricted to the messages of one producer,
\* is a prefix of what that producer sent, so that each producer's lines are
\* consumed in the order sent and none twice, with two clones of the sender
\* feeding the channel; every attempt has consumed exactly one message.
C31_LineChannelOrder ==
    /\ \A s \in Streams :
        /\ IsPrefix(From(received \o line_receiver, s), StreamMsgs(s))
        /\ IsPrefix(From(received, s), StreamMsgs(s))
    /\ ffn = Len(received)

\* the attempts have consumed a line of stdout, then one of stderr, then the
\* next of stdout
C31_Witness ==
    /\ Len(received) = 3
    /\ received[1] = StreamMsgs("stdout")[1]
    /\ received[2] = StreamMsgs("stderr")[1]
    /\ received[3] = StreamMsgs("stdout")[2]


\* the place of channel c among the senders of stream s
Idx(s, c) == CHOOSE i \in 1..Len(Senders(s)) : Senders(s)[i] = c

\* the number of lines of s for which pipe_output has made its send to c
Passed(s, c) ==
    ppos[s] + IF ppc[s] = "send" /\ pidx[s] > Idx(s, c) THEN 1 ELSE 0

\* what channel c has been given: for the engine, which is subscribed to
\* both streams, the part that came from s
Holds(c, s) ==
    IF c = "engine" THEN From(received \o line_receiver, s)
    ELSE got[c] \o chan[c]

C35_FanOutNeverBlocks ==
    \A s \in Streams : ppc[s] = "send" => ENABLED PipeSend(s)


\* C38: once run has returned, a pipe_output that has come to a send on the
\* engine's sender can make it, however full the channel is, and no send
\* queues anything in the channel any more: it completes with the
\* closed-channel error.
C38_FinishedEngineNeverStalls ==
    /\ [](runpc = "done" =>
            \A s \in Streams :
                (ppc[s] = "send" /\ Senders(s)[pidx[s]] = "engine")
                    => ENABLED PipeSend(s))
    /\ [][runpc = "done" =>
            (line_receiver' = line_receiver /\ nsent' = nsent)]_vars

\* run has returned Ok leaving the engine's channel full, and a send made on
\* the engine's sender since then has completed without queuing its line
C38_Witness ==
    /\ runpc = "done" /\ runret.kind = "Ok"
    /\ Len(line_receiver) = ChanCap
    /\ Passed("stdout", "engine") + Passed("stderr", "engine") > nsent


\* C39: the engine's channel never closes.  Run does not return as long as
\* the lines sent do not supply every required field; once every outside
\* producer is gone nothing more is queued, and a run that finds the channel
\* empty then cannot make its next attempt; with the producers gone before
\* the fields have arrived, run ends up at the head of its loop with an
\* empty channel and stays there for ever.
C39_RunSuspendedForever ==
    /\ [](~StreamSupplies => runpc # "done")
    /\ []((ProducersGone /\ line_receiver = <<>> /\ runpc = "loop")
            => ~ENABLED JsonlRunCall)
    /\ [][ProducersGone => nsent' = nsent]_vars
    /\ (ProducersGone /\ ~StreamSupplies)
          ~> [](runpc = "loop" /\ line_receiver = <<>>)

\* both pipes have ended, the lines they sent do not supply every required
\* field, each of them has been consumed by an attempt, and run is at the
\* head of its loop before an empty channel
C39_Witness ==
    /\ ProducersGone /\ ~StreamSupplies
    /\ runpc = "loop" /\ line_receiver = <<>>
    /\ ffn = nsent /\ ffn >= 2

=============================================================================
